---- MODULE Spec2Model ----
(***************************************************************************)
(* A model of zekroTJA/timedmap (generic version): a map whose entries     *)
(* carry an expiration instant, evicted lazily by lookups and eagerly by a *)
(* background cleanup loop.  Every goroutine is a process with a program   *)
(* counter; one action is one step of the Go code between two points at    *)
(* which another goroutine can observe or change shared memory.            *)
(***************************************************************************)
EXTENDS Integers, Sequences, FiniteSets, TLC

\* ------------------------------------------------------------------------
\* Bounds of the model

\* the clock runs from 0 to MaxTime
MaxTime == 2
\* durations passed to set / setExpires / refresh are 0..MaxTTL
MaxTTL == 1
\* operations each caller goroutine may start
MaxOps == 3
\* element objects that exist at the same time (heap size)
MaxElems == 3
\* caller goroutines
NumCallers == 2
\* cleanup loop goroutines that exist at the same time
MaxLoops == 2
\* time.Ticker objects that exist at the same time
MaxTickers == 3

\* ------------------------------------------------------------------------
\* Value domains

\* the section identifiers and the user keys in use
Sections == {0, 1}
UserKeys == {1}
\* keyWrap{sec, key}
KeyWraps == [sec : Sections, key : UserKeys]
\* TVal values passed to set; ZeroVal is the zero value of TVal
Vals == {1, 2}
ZeroVal == 0
\* callbacks are named by a number; a callback list is passed to set
CbLists == {<<>>, <<1>>, <<2, 1>>}
TTLs == 0..MaxTTL

Callers == 1..NumCallers
Loops == 1..MaxLoops
\* goroutine identities as lock holders: callers are 1.., loops are 101..
LoopThread(l) == 100 + l
NoThread == 0

Elems == 1..MaxElems
\* the nil *element
NilElem == 0
Tickers == 1..MaxTickers
\* cleanerTicker == nil, and the tick source of a loop that does not exist
NoTicker == 0
\* the externally supplied <-chan time.Time
ExtChan == -1

\* a freshly allocated element: new(element[TVal])
ZeroElement == [value |-> ZeroVal, expires |-> 0, cbs |-> <<>>]

VARIABLES
    now,            \* time.Now()
    container,      \* tm.container: KeyWraps -> element pointer (NilElem: no entry)
    heap,           \* the element objects: Elems -> [value, expires, cbs]
    pool,           \* tm.elementPool: how many times each element is in the pool
    mtx,            \* tm.mtx: the goroutine holding the write lock, or NoThread
    pc,             \* the position of each caller goroutine
    op,             \* the arguments and locals of each caller's running call
    ret,            \* what each caller's last finished call returned
    nOps,           \* calls each caller has started
    lp,             \* the cleanup loop goroutines
    cleanerRunning, \* tm.cleanerRunning
    cleanerTicker,  \* tm.cleanerTicker
    tickers,        \* the time.Ticker objects: Tickers -> [stopped, buf]
    hist            \* history: what was set, evicted and swept (not program state)

vars == <<now, container, heap, pool, mtx, pc, op, ret, nOps, lp,
          cleanerRunning, cleanerTicker, tickers, hist>>

\* ------------------------------------------------------------------------
\* Helpers

\* (variant with an error: the comparison the wrong way round)
After_reversed(t, u) == u > t

\* (variant with an error: the deadline itself counts as expired)
After_orEqual(t, u) == t >= u

\* time.Time.After
After(t, u) == t > u

\* time.Time.Add
TimeAdd(t, d) == t + d

NoKey == [sec |-> -1, key |-> 0]

\* history: no entry is set for a key
NoEntry == [set |-> FALSE, val |-> ZeroVal, deadline |-> 0, cbs |-> <<>>]

\* a caller that is not inside a call
NoOp == [name |-> "none", k |-> NoKey, val |-> ZeroVal, d |-> 0, cbs |-> <<>>,
         v |-> NilElem, cbq |-> <<>>, fired |-> <<>>, at |-> 0, pre |-> NoEntry,
         last |-> NoEntry]

\* nothing returned yet
NoRet == [name |-> "none", k |-> NoKey, found |-> FALSE, val |-> ZeroVal,
          exp |-> 0, err |-> "nil", at |-> 0, fired |-> <<>>, evicted |-> FALSE,
          pre |-> NoEntry, last |-> NoEntry, end |-> 0,
          size |-> 0, snap |-> <<>>]

\* a cleanup loop slot without a goroutine
NoLoop == [pc |-> "none", tc |-> NoTicker, now |-> 0, todo |-> {}, k |-> NoKey,
           v |-> NilElem, cbq |-> <<>>, evicted |-> {},
           fired |-> [k \in KeyWraps |-> <<>>],
           snapL |-> [k \in KeyWraps |-> NoEntry]]

NoTickerObj == [stopped |-> FALSE, buf |-> 0]

Min(S) == CHOOSE x \in S : \A y \in S : x <= y

\* the elements some pointer of the program refers to
Referenced ==
    {container[k] : k \in KeyWraps}
      \cup {e \in Elems : pool[e] > 0}
      \cup {op[t].v : t \in Callers}
      \cup {lp[l].v : l \in Loops}

\* sync.Pool.Get: an arbitrary pooled element, or (the pool being allowed
\* to ignore its content) a new one from Pool.New
PoolGetChoices ==
    LET free == Elems \ Referenced
    IN  {e \in Elems : pool[e] > 0} \cup (IF free = {} THEN {} ELSE {Min(free)})

\* sync.Pool.Put
PoolPut(p, e) == [p EXCEPT ![e] = @ + 1]

\* the keys that have an entry in the container
Stored == {k \in KeyWraps : container[k] # NilElem}

\* the tickers some pointer of the program refers to
TickersInUse == {cleanerTicker} \cup {lp[l].tc : l \in Loops}

\* the cleanup loops that exist and have not received the stop message
LiveLoops == {l \in Loops : lp[l].pc \notin {"none", "exiting"}}

\* a sweep pass is between its tick and its Unlock
InPass(l) == lp[l].pc \in {"pass_lock", "pass_range", "pass_cbs", "pass_cb"}

\* a caller leaves its call with result r
Return(t, r) ==
    /\ pc' = [pc EXCEPT ![t] = "idle"]
    /\ op' = [op EXCEPT ![t] = NoOp]
    /\ ret' = [ret EXCEPT ![t] = r]

\* a set of key k is in progress
Setting(k) == \E t \in Callers : op[t].name = "Set" /\ op[t].k = k

\* history: the last finished set of key k, if no set of k is in progress
LastSet(k) == IF Setting(k) THEN NoEntry ELSE hist.written[k]

\* history: the last finished set of key k if no set of k has been in
\* progress since the moment it was recorded as last
LastNow(k, last) == IF LastSet(k) = last THEN last ELSE NoEntry

\* a call without results has returned
Returned(name, k) == [NoRet EXCEPT !.name = name, !.k = k]

\* the result of the call the caller is in
Result(t, found, val, exp, err, evicted, fired) ==
    [name |-> op[t].name, k |-> op[t].k, found |-> found, val |-> val,
     exp |-> exp, err |-> err, at |-> op[t].at, fired |-> fired,
     evicted |-> evicted, pre |-> op[t].pre,
     last |-> LastNow(op[t].k, op[t].last), end |-> now,
     size |-> 0, snap |-> <<>>]

\* a caller enters a call: its arguments, and (history, for the calls that
\* return something) what was set for the key at that moment
Enter(t, name, k, val, d, cbs, v) ==
    [NoOp EXCEPT !.name = name, !.k = k, !.val = val, !.d = d, !.cbs = cbs,
                 !.v = v, !.at = now,
                 !.pre = IF name = "Set" THEN NoEntry ELSE hist.live[k],
                 !.last = IF name = "Set" THEN NoEntry ELSE LastSet(k)]

\* History.  live: for each key what the finished calls have set for it
\* (value, deadline, callbacks), kept as the documentation of set,
\* refresh, setExpires, remove and expiration describes them.
\* written: for each key what the last finished set has set for it.
\* staleEvict: expireElement has released an element that was not the
\* stored entry of its key.  started, stopDone: a cleanup loop has been
\* started; StopCleaner has returned and no start call began since.
\* source: the tick source of the last start call that has returned.
HistInit ==
    [live |-> [k \in KeyWraps |-> NoEntry],
     written |-> [k \in KeyWraps |-> NoEntry],
     staleEvict |-> FALSE,
     started |-> FALSE,
     stopDone |-> FALSE,
     source |-> "none"]

\* ------------------------------------------------------------------------
\* New: the state after construction.  New(0) starts no loop; New(interval)
\* has called StartCleanerInternal and New(0, tickerChan) has called
\* StartCleanerExternal, whose goroutine exists but has not run yet.

InitStore ==
    /\ now = 0
    /\ container = [k \in KeyWraps |-> NilElem]
    /\ heap = [e \in Elems |-> ZeroElement]
    /\ pool = [e \in Elems |-> 0]
    /\ mtx = NoThread
    /\ pc = [t \in Callers |-> "idle"]
    /\ op = [t \in Callers |-> NoOp]
    /\ ret = [t \in Callers |-> NoRet]
    /\ nOps = [t \in Callers |-> 0]
    /\ cleanerRunning = FALSE

\* New(0)
InitStopped ==
    /\ InitStore
    /\ lp = [l \in Loops |-> NoLoop]
    /\ cleanerTicker = NoTicker
    /\ tickers = [i \in Tickers |-> NoTickerObj]
    /\ hist = HistInit

\* New(cleanupTickTime) with cleanupTickTime > 0
InitInternal ==
    /\ InitStore
    /\ lp = [l \in Loops |-> IF l = 1 THEN [NoLoop EXCEPT !.pc = "spawned", !.tc = 1]
                             ELSE NoLoop]
    /\ cleanerTicker = 1
    /\ tickers = [i \in Tickers |-> NoTickerObj]
    /\ hist = [HistInit EXCEPT !.started = TRUE, !.source = "internal"]

\* New(0, tickerChan)
InitExternal ==
    /\ InitStore
    /\ lp = [l \in Loops |-> IF l = 1 THEN [NoLoop EXCEPT !.pc = "spawned", !.tc = ExtChan]
                             ELSE NoLoop]
    /\ cleanerTicker = NoTicker
    /\ tickers = [i \in Tickers |-> NoTickerObj]
    /\ hist = [HistInit EXCEPT !.started = TRUE, !.source = "external"]

Init == InitStopped \/ InitInternal \/ InitExternal

\* ------------------------------------------------------------------------
\* The clock

AdvanceTime ==
    /\ now < MaxTime
    /\ now' = now + 1
    /\ UNCHANGED <<container, heap, pool, mtx, pc, op, ret, nOps, lp,
                   cleanerRunning, cleanerTicker, tickers, hist>>

\* ------------------------------------------------------------------------
\* set (Set of TimedMap and of section)

\* history: what a finishing set has set for its key
WasSet(t) ==
    [set |-> TRUE, val |-> op[t].val, deadline |-> op[t].at + op[t].d, cbs |-> op[t].cbs]

\* set, up to the decision on getRaw's result: getRaw reads the container
\* under the read lock, which no writer may hold
SetCall(t, k, val, d, cbs) ==
    /\ pc[t] = "idle"
    /\ nOps[t] < MaxOps
    /\ mtx = NoThread
    /\ nOps' = [nOps EXCEPT ![t] = @ + 1]
    /\ op' = [op EXCEPT ![t] = Enter(t, "Set", k, val, d, cbs, container[k])]
    /\ pc' = [pc EXCEPT ![t] = IF container[k] # NilElem THEN "set_value" ELSE "set_lock"]
    /\ ret' = [ret EXCEPT ![t] = NoRet]
    /\ UNCHANGED <<now, container, heap, pool, mtx, lp,
                   cleanerRunning, cleanerTicker, tickers, hist>>

\* re-use of the element found by getRaw: v.value = val
SetValue(t) ==
    /\ pc[t] = "set_value"
    /\ heap' = [heap EXCEPT ![op[t].v].value = op[t].val]
    /\ pc' = [pc EXCEPT ![t] = "set_expires"]
    /\ UNCHANGED <<now, container, pool, mtx, op, ret, nOps, lp,
                   cleanerRunning, cleanerTicker, tickers, hist>>

\* v.expires = time.Now().Add(expiresAfter)
SetExpiresField(t) ==
    /\ pc[t] = "set_expires"
    /\ heap' = [heap EXCEPT ![op[t].v].expires = TimeAdd(now, op[t].d)]
    /\ pc' = [pc EXCEPT ![t] = "set_cbs"]
    /\ op' = [op EXCEPT ![t].at = now]
    /\ UNCHANGED <<now, container, pool, mtx, ret, nOps, lp,
                   cleanerRunning, cleanerTicker, tickers, hist>>

\* (variant with an error: the callbacks are appended to those of the entry)
SetCbs_appends(t) ==
    /\ pc[t] = "set_cbs"
    /\ heap' = [heap EXCEPT ![op[t].v].cbs = @ \o op[t].cbs]
    /\ Return(t, [Returned("Set", op[t].k) EXCEPT !.found = TRUE])
    /\ hist' = [hist EXCEPT !.live[op[t].k] = WasSet(t), !.written[op[t].k] = WasSet(t)]
    /\ UNCHANGED <<now, container, pool, mtx, nOps, lp,
                   cleanerRunning, cleanerTicker, tickers>>

\* v.cbs = cb; return (found is history: the element of the key was re-used)
SetCbs(t) ==
    /\ pc[t] = "set_cbs"
    /\ heap' = [heap EXCEPT ![op[t].v].cbs = op[t].cbs]
    /\ Return(t, [Returned("Set", op[t].k) EXCEPT !.found = TRUE])
    /\ hist' = [hist EXCEPT !.live[op[t].k] = WasSet(t), !.written[op[t].k] = WasSet(t)]
    /\ UNCHANGED <<now, container, pool, mtx, nOps, lp,
                   cleanerRunning, cleanerTicker, tickers>>

\* no entry was found: tm.mtx.Lock(); v := tm.elementPool.Get(); v.value = val
SetLock(t) ==
    /\ pc[t] = "set_lock"
    /\ mtx = NoThread
    /\ mtx' = t
    /\ \E e \in PoolGetChoices :
         /\ pool' = IF pool[e] > 0 THEN [pool EXCEPT ![e] = @ - 1] ELSE pool
         /\ heap' = [heap EXCEPT ![e] =
                       [(IF pool[e] > 0 THEN heap[e] ELSE ZeroElement)
                          EXCEPT !.value = op[t].val]]
         /\ op' = [op EXCEPT ![t].v = e]
    /\ pc' = [pc EXCEPT ![t] = "set_new_expires"]
    /\ UNCHANGED <<now, container, ret, nOps, lp,
                   cleanerRunning, cleanerTicker, tickers, hist>>

\* v.expires = time.Now().Add(expiresAfter), the lock held
SetNewExpires(t) ==
    /\ pc[t] = "set_new_expires"
    /\ heap' = [heap EXCEPT ![op[t].v].expires = TimeAdd(now, op[t].d)]
    /\ pc' = [pc EXCEPT ![t] = "set_insert"]
    /\ op' = [op EXCEPT ![t].at = now]
    /\ UNCHANGED <<now, container, pool, mtx, ret, nOps, lp,
                   cleanerRunning, cleanerTicker, tickers, hist>>

\* (variant with an error: set builds its keyWrap without the section)
SetInsert_ignoresSection(t) ==
    /\ pc[t] = "set_insert"
    /\ heap' = [heap EXCEPT ![op[t].v].cbs = op[t].cbs]
    /\ container' = [container EXCEPT ![[sec |-> 0, key |-> op[t].k.key]] = op[t].v]
    /\ mtx' = NoThread
    /\ Return(t, Returned("Set", op[t].k))
    /\ hist' = [hist EXCEPT !.live[op[t].k] = WasSet(t), !.written[op[t].k] = WasSet(t)]
    /\ UNCHANGED <<now, pool, nOps, lp,
                   cleanerRunning, cleanerTicker, tickers>>

\* v.cbs = cb; tm.container[k] = v; the deferred Unlock
SetInsert(t) ==
    /\ pc[t] = "set_insert"
    /\ heap' = [heap EXCEPT ![op[t].v].cbs = op[t].cbs]
    /\ container' = [container EXCEPT ![op[t].k] = op[t].v]
    /\ mtx' = NoThread
    /\ Return(t, Returned("Set", op[t].k))
    /\ hist' = [hist EXCEPT !.live[op[t].k] = WasSet(t), !.written[op[t].k] = WasSet(t)]
    /\ UNCHANGED <<now, pool, nOps, lp,
                   cleanerRunning, cleanerTicker, tickers>>

\* ------------------------------------------------------------------------
\* get and the calls built on it

GetNames == {"Contains", "GetValue", "GetExpires", "Refresh", "SetExpires"}

\* (variant with an error: the calls that find no entry report no error)
Absent_noError(t, name, k, evicted, fired) ==
    [name |-> name, k |-> k, found |-> FALSE, val |-> ZeroVal, exp |-> 0,
     err |-> "nil",
     at |-> IF evicted THEN op[t].at ELSE now,
     fired |-> fired, evicted |-> evicted,
     pre |-> IF evicted THEN op[t].pre ELSE hist.live[k],
     last |-> IF evicted THEN LastNow(k, op[t].last) ELSE LastSet(k),
     end |-> now, size |-> 0, snap |-> <<>>]

\* what a call built on get returns when get returned nil
Absent(t, name, k, evicted, fired) ==
    [name |-> name, k |-> k, found |-> FALSE, val |-> ZeroVal, exp |-> 0,
     err |-> IF name \in {"GetExpires", "Refresh", "SetExpires"}
             THEN "ErrKeyNotFound" ELSE "nil",
     at |-> IF evicted THEN op[t].at ELSE now,
     fired |-> fired, evicted |-> evicted,
     pre |-> IF evicted THEN op[t].pre ELSE hist.live[k],
     last |-> IF evicted THEN LastNow(k, op[t].last) ELSE LastSet(k),
     end |-> now, size |-> 0, snap |-> <<>>]

\* get, up to the decision on getRaw's result; nil is returned at once
GetCall(t, name, k, d) ==
    /\ pc[t] = "idle"
    /\ nOps[t] < MaxOps
    /\ mtx = NoThread
    /\ nOps' = [nOps EXCEPT ![t] = @ + 1]
    /\ IF container[k] = NilElem
       THEN /\ pc' = pc
            /\ op' = op
            /\ ret' = [ret EXCEPT ![t] = Absent(t, name, k, FALSE, <<>>)]
       ELSE /\ pc' = [pc EXCEPT ![t] = "get_check"]
            /\ op' = [op EXCEPT ![t] = Enter(t, name, k, ZeroVal, d, <<>>, container[k])]
            /\ ret' = [ret EXCEPT ![t] = NoRet]
    /\ UNCHANGED <<now, container, heap, pool, mtx, lp,
                   cleanerRunning, cleanerTicker, tickers, hist>>

\* (variant with an error: refresh and setExpires take the element from
\* getRaw, without the expiry test of get)
GetCheck_noExpiryTest(t) ==
    /\ pc[t] = "get_check"
    /\ op' = [op EXCEPT ![t].at = now]
    /\ IF After(now, heap[op[t].v].expires) /\ op[t].name \notin {"Refresh", "SetExpires"}
       THEN /\ pc' = [pc EXCEPT ![t] = "get_lock"]
            /\ ret' = ret
       ELSE IF op[t].name = "Contains"
       THEN /\ pc' = [pc EXCEPT ![t] = "idle"]
            /\ ret' = [ret EXCEPT ![t] =
                         [Result(t, TRUE, ZeroVal, 0, "nil", FALSE, <<>>) EXCEPT !.at = now]]
       ELSE /\ pc' = [pc EXCEPT ![t] = "get_use"]
            /\ ret' = ret
    /\ UNCHANGED <<now, container, heap, pool, mtx, nOps, lp,
                   cleanerRunning, cleanerTicker, tickers, hist>>

\* if time.Now().After(v.expires): the entry is to be expired; otherwise
\* get returns v, and Contains returns true
GetCheck(t) ==
    /\ pc[t] = "get_check"
    /\ op' = [op EXCEPT ![t].at = now]
    /\ IF After(now, heap[op[t].v].expires)
       THEN /\ pc' = [pc EXCEPT ![t] = "get_lock"]
            /\ ret' = ret
       ELSE IF op[t].name = "Contains"
       THEN /\ pc' = [pc EXCEPT ![t] = "idle"]
            /\ ret' = [ret EXCEPT ![t] =
                         [Result(t, TRUE, ZeroVal, 0, "nil", FALSE, <<>>) EXCEPT !.at = now]]
       ELSE /\ pc' = [pc EXCEPT ![t] = "get_use"]
            /\ ret' = ret
    /\ UNCHANGED <<now, container, heap, pool, mtx, nOps, lp,
                   cleanerRunning, cleanerTicker, tickers, hist>>

\* (variant with an error: expireElement without the delete)
Evict_keepsKey(k, v) ==
    /\ pool' = PoolPut(pool, v)
    /\ container' = container
    /\ hist' = [hist EXCEPT !.live[k] = NoEntry,
                            !.staleEvict = @ \/ container[k] # v]

\* expireElement's last statements, for key k and element v:
\* tm.elementPool.Put(v); delete(tm.container, k)
Evict(k, v) ==
    /\ pool' = PoolPut(pool, v)
    /\ container' = [container EXCEPT ![k] = NilElem]
    /\ hist' = [hist EXCEPT !.live[k] = NoEntry,
                            !.staleEvict = @ \/ container[k] # v]

\* (variant with an error: expireElement releases the element and deletes
\* the key before it calls the callbacks)
GetLock_releasesFirst(t) ==
    /\ pc[t] = "get_lock"
    /\ mtx = NoThread
    /\ Evict(op[t].k, op[t].v)
    /\ IF heap[op[t].v].cbs = <<>>
       THEN /\ mtx' = NoThread
            /\ Return(t, Absent(t, op[t].name, op[t].k, TRUE, <<>>))
       ELSE /\ mtx' = t
            /\ op' = [op EXCEPT ![t].cbq = heap[op[t].v].cbs]
            /\ pc' = [pc EXCEPT ![t] = "get_cb"]
            /\ ret' = ret
    /\ UNCHANGED <<now, heap, nOps, lp, cleanerRunning, cleanerTicker, tickers>>

\* tm.mtx.Lock(); expireElement evaluates the range expression v.cbs.
\* Without callbacks the element is released, the key deleted, and get
\* returns nil through the deferred Unlock.
GetLock(t) ==
    /\ pc[t] = "get_lock"
    /\ mtx = NoThread
    /\ IF heap[op[t].v].cbs = <<>>
       THEN /\ Evict(op[t].k, op[t].v)
            /\ mtx' = NoThread
            /\ Return(t, Absent(t, op[t].name, op[t].k, TRUE, <<>>))
       ELSE /\ mtx' = t
            /\ op' = [op EXCEPT ![t].cbq = heap[op[t].v].cbs]
            /\ pc' = [pc EXCEPT ![t] = "get_cb"]
            /\ UNCHANGED <<pool, container, hist, ret>>
    /\ UNCHANGED <<now, heap, nOps, lp, cleanerRunning, cleanerTicker, tickers>>

\* cb(v.value) for the next callback of the range; after the last one the
\* element is released, the key deleted, and get returns nil
GetCb(t) ==
    /\ pc[t] = "get_cb"
    /\ LET call == <<Head(op[t].cbq), heap[op[t].v].value>>
           fired == Append(op[t].fired, call)
       IN  IF Tail(op[t].cbq) = <<>>
           THEN /\ Evict(op[t].k, op[t].v)
                /\ mtx' = NoThread
                /\ Return(t, Absent(t, op[t].name, op[t].k, TRUE, fired))
           ELSE /\ op' = [op EXCEPT ![t].cbq = Tail(@), ![t].fired = fired]
                /\ UNCHANGED <<pool, container, hist, mtx, pc, ret>>
    /\ UNCHANGED <<now, heap, nOps, lp, cleanerRunning, cleanerTicker, tickers>>

\* (variant with an error: GetValue does not copy v.value into its result)
GetValueRead_zero(t) ==
    /\ pc[t] = "get_use"
    /\ op[t].name = "GetValue"
    /\ Return(t, Result(t, TRUE, ZeroVal, 0, "nil", FALSE, <<>>))
    /\ UNCHANGED <<now, container, heap, pool, mtx, nOps, lp,
                   cleanerRunning, cleanerTicker, tickers, hist>>

\* GetValue: val = v.value
GetValueRead(t) ==
    /\ pc[t] = "get_use"
    /\ op[t].name = "GetValue"
    /\ Return(t, Result(t, TRUE, heap[op[t].v].value, 0, "nil", FALSE, <<>>))
    /\ UNCHANGED <<now, container, heap, pool, mtx, nOps, lp,
                   cleanerRunning, cleanerTicker, tickers, hist>>

\* GetExpires: return v.expires, nil
GetExpiresRead(t) ==
    /\ pc[t] = "get_use"
    /\ op[t].name = "GetExpires"
    /\ Return(t, Result(t, TRUE, ZeroVal, heap[op[t].v].expires, "nil", FALSE, <<>>))
    /\ UNCHANGED <<now, container, heap, pool, mtx, nOps, lp,
                   cleanerRunning, cleanerTicker, tickers, hist>>

\* (variant with an error: refresh counts from now, as setExpires does)
RefreshWrite_absolute(t) ==
    /\ pc[t] = "get_use"
    /\ op[t].name = "Refresh"
    /\ heap' = [heap EXCEPT ![op[t].v].expires = TimeAdd(now, op[t].d)]
    /\ Return(t, Result(t, TRUE, ZeroVal, TimeAdd(now, op[t].d), "nil", FALSE, <<>>))
    /\ hist' = [hist EXCEPT !.live[op[t].k].deadline = @ + op[t].d]
    /\ UNCHANGED <<now, container, pool, mtx, nOps, lp,
                   cleanerRunning, cleanerTicker, tickers>>

\* refresh: v.expires = v.expires.Add(d)
RefreshWrite(t) ==
    /\ pc[t] = "get_use"
    /\ op[t].name = "Refresh"
    /\ heap' = [heap EXCEPT ![op[t].v].expires = TimeAdd(@, op[t].d)]
    /\ Return(t, Result(t, TRUE, ZeroVal, TimeAdd(heap[op[t].v].expires, op[t].d),
                        "nil", FALSE, <<>>))
    /\ hist' = [hist EXCEPT !.live[op[t].k].deadline = @ + op[t].d]
    /\ UNCHANGED <<now, container, pool, mtx, nOps, lp,
                   cleanerRunning, cleanerTicker, tickers>>

\* setExpires: v.expires = time.Now().Add(d)
SetExpiresWrite(t) ==
    /\ pc[t] = "get_use"
    /\ op[t].name = "SetExpires"
    /\ heap' = [heap EXCEPT ![op[t].v].expires = TimeAdd(now, op[t].d)]
    /\ Return(t, Result(t, TRUE, ZeroVal, TimeAdd(now, op[t].d), "nil", FALSE, <<>>))
    /\ hist' = [hist EXCEPT !.live[op[t].k].deadline = now + op[t].d]
    /\ UNCHANGED <<now, container, pool, mtx, nOps, lp,
                   cleanerRunning, cleanerTicker, tickers>>

\* ------------------------------------------------------------------------
\* remove

\* (variant with an error: remove releases the element and keeps the key)
Remove_keepsKey(t, k) ==
    /\ pc[t] = "idle"
    /\ nOps[t] < MaxOps
    /\ mtx = NoThread
    /\ nOps' = [nOps EXCEPT ![t] = @ + 1]
    /\ IF container[k] = NilElem
       THEN UNCHANGED <<pool, container>>
       ELSE /\ pool' = PoolPut(pool, container[k])
            /\ container' = container
    /\ ret' = [ret EXCEPT ![t] = [Returned("Remove", k) EXCEPT
                                    !.found = container[k] # NilElem]]
    /\ hist' = [hist EXCEPT !.live[k] = NoEntry, !.written[k] = NoEntry]
    /\ UNCHANGED <<now, heap, mtx, pc, op, lp,
                   cleanerRunning, cleanerTicker, tickers>>

\* (variant with an error: remove builds its keyWrap without the section)
Remove_ignoresSection(t, k) ==
    LET k0 == [sec |-> 0, key |-> k.key]
    IN  /\ pc[t] = "idle"
        /\ nOps[t] < MaxOps
        /\ mtx = NoThread
        /\ nOps' = [nOps EXCEPT ![t] = @ + 1]
        /\ IF container[k0] = NilElem
           THEN UNCHANGED <<pool, container>>
           ELSE /\ pool' = PoolPut(pool, container[k0])
                /\ container' = [container EXCEPT ![k0] = NilElem]
        /\ ret' = [ret EXCEPT ![t] = [Returned("Remove", k) EXCEPT
                                        !.found = container[k] # NilElem]]
        /\ hist' = [hist EXCEPT !.live[k0] = NoEntry, !.written[k0] = NoEntry]
        /\ UNCHANGED <<now, heap, mtx, pc, op, lp,
                       cleanerRunning, cleanerTicker, tickers>>

\* remove: under the lock, release and delete the entry if there is one
\* (found is remove's local ok, kept as history)
Remove(t, k) ==
    /\ pc[t] = "idle"
    /\ nOps[t] < MaxOps
    /\ mtx = NoThread
    /\ nOps' = [nOps EXCEPT ![t] = @ + 1]
    /\ IF container[k] = NilElem
       THEN UNCHANGED <<pool, container>>
       ELSE /\ pool' = PoolPut(pool, container[k])
            /\ container' = [container EXCEPT ![k] = NilElem]
    /\ ret' = [ret EXCEPT ![t] = [Returned("Remove", k) EXCEPT
                                    !.found = container[k] # NilElem]]
    /\ hist' = [hist EXCEPT !.live[k] = NoEntry, !.written[k] = NoEntry]
    /\ UNCHANGED <<now, heap, mtx, pc, op, lp,
                   cleanerRunning, cleanerTicker, tickers>>

\* ------------------------------------------------------------------------
\* Flush, Size, Snapshot.  Section(0) returns the TimedMap itself, so for
\* section 0 the methods are TimedMap.Flush, TimedMap.Size and
\* TimedMap.Snapshot; for another section they are those of the section.

\* the TimedMap as a Section
TheMap == [tm |-> "tm", sec |-> 0]

\* TimedMap.Section(i): the map itself for 0, otherwise a new section
\* {tm, sec} (a value that holds nothing but the map and the identifier)
Section(i) == IF i = 0 THEN TheMap ELSE [tm |-> "tm", sec |-> i]

\* Ident: 0 for the map, s.sec for a section
Ident(view) == IF view = TheMap THEN 0 ELSE view.sec

\* the argument of a call on a whole section
SecKey(sec) == [sec |-> sec, key |-> 0]

\* the keys of section sec that have an entry in the container
StoredIn(sec) == {k \in Stored : k.sec = sec}

\* (variant with an error: the flush of section 0 keeps to section 0)
FlushedBy_ownSection(sec) == StoredIn(sec)

\* the entries a Flush called on section sec deletes: TimedMap.Flush
\* ranges over the whole container
FlushedBy(sec) == IF sec = 0 THEN Stored ELSE StoredIn(sec)

\* TimedMap.Flush: under the lock, every entry is released and deleted.
\* section.Flush: the range over the container begins.
FlushCall(t, sec) ==
    /\ pc[t] = "idle"
    /\ nOps[t] < MaxOps
    /\ nOps' = [nOps EXCEPT ![t] = @ + 1]
    /\ IF sec = 0
       THEN /\ mtx = NoThread
            /\ pool' = [e \in Elems |->
                          pool[e] + Cardinality({k \in FlushedBy(sec) : container[k] = e})]
            /\ container' = [k \in KeyWraps |->
                               IF k \in FlushedBy(sec) THEN NilElem ELSE container[k]]
            /\ hist' = [hist EXCEPT
                          !.live = [k \in KeyWraps |->
                                      IF k \in FlushedBy(sec) THEN NoEntry ELSE @[k]],
                          !.written = [k \in KeyWraps |->
                                      IF k \in FlushedBy(sec) THEN NoEntry ELSE @[k]]]
            /\ ret' = [ret EXCEPT ![t] = Returned("Flush", SecKey(sec))]
            /\ UNCHANGED <<pc, op>>
       ELSE /\ pc' = [pc EXCEPT ![t] = "flush_range"]
            /\ op' = [op EXCEPT ![t] = [NoOp EXCEPT !.name = "Flush", !.k = SecKey(sec)]]
            /\ ret' = [ret EXCEPT ![t] = NoRet]
            /\ UNCHANGED <<pool, container, hist>>
    /\ UNCHANGED <<now, heap, mtx, lp, cleanerRunning, cleanerTicker, tickers>>

\* section.Flush: the range yields a key of the section, and remove
\* releases and deletes its entry under the lock
FlushVisit(t) ==
    /\ pc[t] = "flush_range"
    /\ mtx = NoThread
    /\ \E k \in FlushedBy(op[t].k.sec) :
         /\ pool' = PoolPut(pool, container[k])
         /\ container' = [container EXCEPT ![k] = NilElem]
         /\ hist' = [hist EXCEPT !.live[k] = NoEntry, !.written[k] = NoEntry]
    /\ UNCHANGED <<now, heap, mtx, pc, op, ret, nOps, lp,
                   cleanerRunning, cleanerTicker, tickers>>

\* section.Flush: the range is exhausted
FlushEnd(t) ==
    /\ pc[t] = "flush_range"
    /\ FlushedBy(op[t].k.sec) = {}
    /\ Return(t, Returned("Flush", op[t].k))
    /\ UNCHANGED <<now, container, heap, pool, mtx, nOps, lp,
                   cleanerRunning, cleanerTicker, tickers, hist>>

\* (variant with an error: the size of section 0 counts section 0 only)
SizeOf_ownSection(sec) == Cardinality(StoredIn(sec))

\* TimedMap.Size: len(tm.container); section.Size: the keys of the
\* container with k.sec == s.sec are counted
SizeOf(sec) == IF sec = 0 THEN Cardinality(Stored) ELSE Cardinality(StoredIn(sec))

Size(t, sec) ==
    /\ pc[t] = "idle"
    /\ nOps[t] < MaxOps
    /\ nOps' = [nOps EXCEPT ![t] = @ + 1]
    /\ ret' = [ret EXCEPT ![t] = [Returned("Size", SecKey(sec)) EXCEPT !.size = SizeOf(sec)]]
    /\ UNCHANGED <<now, container, heap, pool, mtx, pc, op, lp,
                   cleanerRunning, cleanerTicker, tickers, hist>>

\* (variant with an error: the snapshot takes the keys of every section)
SnapshotOf_allSections(sec) ==
    [key \in {k.key : k \in Stored} |->
       heap[container[CHOOSE k \in Stored : k.key = key]].value]

\* getSnapshot: m[k.key] = v.value for the entries with k.sec == sec
SnapshotOf(sec) ==
    [key \in {k.key : k \in StoredIn(sec)} |->
       heap[container[[sec |-> sec, key |-> key]]].value]

\* Snapshot: getSnapshot under the read lock
Snapshot(t, sec) ==
    /\ pc[t] = "idle"
    /\ nOps[t] < MaxOps
    /\ mtx = NoThread
    /\ nOps' = [nOps EXCEPT ![t] = @ + 1]
    /\ ret' = [ret EXCEPT ![t] = [Returned("Snapshot", SecKey(sec)) EXCEPT
                                    !.snap = SnapshotOf(sec)]]
    /\ UNCHANGED <<now, container, heap, pool, mtx, pc, op, lp,
                   cleanerRunning, cleanerTicker, tickers, hist>>

\* ------------------------------------------------------------------------
\* The cleanup loop goroutine

\* cleanupLoop's first statement: tm.cleanerRunning = true
LoopBegin(l) ==
    /\ lp[l].pc = "spawned"
    /\ cleanerRunning' = TRUE
    /\ lp' = [lp EXCEPT ![l].pc = "select"]
    /\ UNCHANGED <<now, container, heap, pool, mtx, pc, op, ret, nOps,
                   cleanerTicker, tickers, hist>>

\* a time.Ticker that is not stopped puts a tick into its channel, which
\* buffers one tick
TickerFire(i) ==
    /\ i \in TickersInUse
    /\ ~tickers[i].stopped
    /\ tickers[i].buf = 0
    /\ tickers' = [tickers EXCEPT ![i].buf = 1]
    /\ UNCHANGED <<now, container, heap, pool, mtx, pc, op, ret, nOps, lp,
                   cleanerRunning, cleanerTicker, hist>>

\* (variant with an error: the tick is received but cleanUp is not called)
LoopTick_noCleanUp(l) ==
    /\ lp[l].pc = "select"
    /\ \/ /\ lp[l].tc = ExtChan
          /\ tickers' = tickers
       \/ /\ lp[l].tc \in Tickers
          /\ tickers[lp[l].tc].buf = 1
          /\ tickers' = [tickers EXCEPT ![lp[l].tc].buf = 0]
    /\ lp' = [lp EXCEPT ![l].now = now]
    /\ UNCHANGED <<now, container, heap, pool, mtx, pc, op, ret, nOps,
                   cleanerRunning, cleanerTicker, hist>>

\* case <-tc: a tick is received (from the ticker's channel, or from the
\* external channel, whose sender may send at any time); cleanUp starts
\* with now := time.Now()
LoopTick(l) ==
    /\ lp[l].pc = "select"
    /\ \/ /\ lp[l].tc = ExtChan
          /\ tickers' = tickers
       \/ /\ lp[l].tc \in Tickers
          /\ tickers[lp[l].tc].buf = 1
          /\ tickers' = [tickers EXCEPT ![lp[l].tc].buf = 0]
    /\ lp' = [lp EXCEPT ![l].pc = "pass_lock", ![l].now = now]
    /\ UNCHANGED <<now, container, heap, pool, mtx, pc, op, ret, nOps,
                   cleanerRunning, cleanerTicker, hist>>

\* cleanUp: tm.mtx.Lock(); the range over tm.container begins (snapL is
\* history: what was set for each key at that moment)
PassLock(l) ==
    /\ lp[l].pc = "pass_lock"
    /\ mtx = NoThread
    /\ mtx' = LoopThread(l)
    /\ lp' = [lp EXCEPT ![l].pc = "pass_range", ![l].todo = Stored,
                        ![l].snapL = hist.live]
    /\ UNCHANGED <<now, container, heap, pool, pc, op, ret, nOps,
                   cleanerRunning, cleanerTicker, tickers, hist>>

\* (variant with an error: the pass expires only the entries of section 0)
PassVisit_section0(l) ==
    /\ lp[l].pc = "pass_range"
    /\ \E k \in lp[l].todo :
         IF k.sec = 0 /\ After(lp[l].now, heap[container[k]].expires)
         THEN lp' = [lp EXCEPT ![l].pc = "pass_cbs", ![l].k = k, ![l].v = container[k]]
         ELSE lp' = [lp EXCEPT ![l].todo = @ \ {k}]
    /\ UNCHANGED <<now, container, heap, pool, mtx, pc, op, ret, nOps,
                   cleanerRunning, cleanerTicker, tickers, hist>>

\* the range yields a next entry k, v in any order: if now.After(v.expires)
\* it is to be expired
PassVisit(l) ==
    /\ lp[l].pc = "pass_range"
    /\ \E k \in lp[l].todo :
         IF After(lp[l].now, heap[container[k]].expires)
         THEN lp' = [lp EXCEPT ![l].pc = "pass_cbs", ![l].k = k, ![l].v = container[k]]
         ELSE lp' = [lp EXCEPT ![l].todo = @ \ {k}]
    /\ UNCHANGED <<now, container, heap, pool, mtx, pc, op, ret, nOps,
                   cleanerRunning, cleanerTicker, tickers, hist>>

\* expireElement evaluates the range expression v.cbs; without callbacks
\* the element is released and the key deleted
PassCbs(l) ==
    /\ lp[l].pc = "pass_cbs"
    /\ IF heap[lp[l].v].cbs = <<>>
       THEN /\ Evict(lp[l].k, lp[l].v)
            /\ lp' = [lp EXCEPT ![l].pc = "pass_range", ![l].todo = @ \ {lp[l].k},
                                ![l].evicted = @ \cup {lp[l].k},
                                ![l].k = NoKey, ![l].v = NilElem]
       ELSE /\ lp' = [lp EXCEPT ![l].pc = "pass_cb", ![l].cbq = heap[lp[l].v].cbs]
            /\ UNCHANGED <<pool, container, hist>>
    /\ UNCHANGED <<now, heap, mtx, pc, op, ret, nOps,
                   cleanerRunning, cleanerTicker, tickers>>

\* cb(v.value) for the next callback of the range; after the last one the
\* element is released and the key deleted
PassCb(l) ==
    /\ lp[l].pc = "pass_cb"
    /\ LET call == <<Head(lp[l].cbq), heap[lp[l].v].value>>
           fired == [lp[l].fired EXCEPT ![lp[l].k] = Append(@, call)]
       IN  IF Tail(lp[l].cbq) = <<>>
           THEN /\ Evict(lp[l].k, lp[l].v)
                /\ lp' = [lp EXCEPT ![l].pc = "pass_range", ![l].todo = @ \ {lp[l].k},
                                    ![l].evicted = @ \cup {lp[l].k},
                                    ![l].fired = fired, ![l].cbq = <<>>,
                                    ![l].k = NoKey, ![l].v = NilElem]
           ELSE /\ lp' = [lp EXCEPT ![l].cbq = Tail(@), ![l].fired = fired]
                /\ UNCHANGED <<pool, container, hist>>
    /\ UNCHANGED <<now, heap, mtx, pc, op, ret, nOps,
                   cleanerRunning, cleanerTicker, tickers>>

\* the range is exhausted: the deferred Unlock, and back to the select
PassUnlock(l) ==
    /\ lp[l].pc = "pass_range"
    /\ lp[l].todo = {}
    /\ mtx' = NoThread
    /\ lp' = [lp EXCEPT ![l] = [NoLoop EXCEPT !.pc = "select", !.tc = lp[l].tc]]
    /\ UNCHANGED <<now, container, heap, pool, pc, op, ret, nOps,
                   cleanerRunning, cleanerTicker, tickers, hist>>

\* case <-tm.cleanerStopChan: the unbuffered channel hands the value of a
\* caller blocked in StopCleaner's send to a loop waiting in its select
LoopStop(l, t) ==
    /\ lp[l].pc = "select"
    /\ pc[t] = "stop_send"
    /\ lp' = [lp EXCEPT ![l].pc = "exiting"]
    /\ pc' = [pc EXCEPT ![t] = "stop_ticker"]
    /\ UNCHANGED <<now, container, heap, pool, mtx, op, ret, nOps,
                   cleanerRunning, cleanerTicker, tickers, hist>>

\* return, and the deferred tm.cleanerRunning = false; the goroutine ends
LoopExit(l) ==
    /\ lp[l].pc = "exiting"
    /\ cleanerRunning' = FALSE
    /\ lp' = [lp EXCEPT ![l] = NoLoop]
    /\ UNCHANGED <<now, container, heap, pool, mtx, pc, op, ret, nOps,
                   cleanerTicker, tickers, hist>>

\* ------------------------------------------------------------------------
\* StartCleanerInternal, StartCleanerExternal, StopCleaner

StartNames == {"StartCleanerInternal", "StartCleanerExternal"}

\* the callers inside a start call, each of which will create a goroutine
Starting == {t \in Callers : op[t].name \in StartNames}

\* a start call begins with: if tm.cleanerRunning { tm.StopCleaner() }
StartCall(t, name) ==
    /\ pc[t] = "idle"
    /\ nOps[t] < MaxOps
    /\ Cardinality({l \in Loops : lp[l].pc # "none"}) + Cardinality(Starting) < MaxLoops
    /\ Cardinality(Tickers \ TickersInUse) > Cardinality(Starting)
    /\ nOps' = [nOps EXCEPT ![t] = @ + 1]
    /\ op' = [op EXCEPT ![t] = [NoOp EXCEPT !.name = name]]
    /\ pc' = [pc EXCEPT ![t] =
                IF cleanerRunning THEN "stop_check"
                ELSE IF name = "StartCleanerInternal" THEN "start_ticker"
                ELSE "start_go"]
    /\ hist' = [hist EXCEPT !.started = TRUE, !.stopDone = FALSE]
    /\ ret' = [ret EXCEPT ![t] = NoRet]
    /\ UNCHANGED <<now, container, heap, pool, mtx, lp,
                   cleanerRunning, cleanerTicker, tickers>>

\* where a caller continues when StopCleaner returns
AfterStop(t, name) ==
    IF name = "StartCleanerInternal" THEN "start_ticker"
    ELSE IF name = "StartCleanerExternal" THEN "start_go"
    ELSE "idle"

\* StopCleaner called by a caller: if !tm.cleanerRunning { return }
StopCall(t) ==
    /\ pc[t] = "idle"
    /\ nOps[t] < MaxOps
    /\ nOps' = [nOps EXCEPT ![t] = @ + 1]
    /\ IF cleanerRunning
       THEN /\ op' = [op EXCEPT ![t] = [NoOp EXCEPT !.name = "StopCleaner"]]
            /\ pc' = [pc EXCEPT ![t] = "stop_send"]
            /\ ret' = [ret EXCEPT ![t] = NoRet]
            /\ hist' = hist
       ELSE /\ ret' = [ret EXCEPT ![t] = Returned("StopCleaner", NoKey)]
            /\ hist' = [hist EXCEPT !.stopDone = TRUE]
            /\ UNCHANGED <<op, pc>>
    /\ UNCHANGED <<now, container, heap, pool, mtx, lp,
                   cleanerRunning, cleanerTicker, tickers>>

\* StopCleaner called by a start call: if !tm.cleanerRunning { return }
StopCheck(t) ==
    /\ pc[t] = "stop_check"
    /\ pc' = [pc EXCEPT ![t] = IF cleanerRunning THEN "stop_send"
                               ELSE AfterStop(t, op[t].name)]
    /\ UNCHANGED <<now, container, heap, pool, mtx, op, ret, nOps, lp,
                   cleanerRunning, cleanerTicker, tickers, hist>>

\* after the send: if tm.cleanerTicker != nil { tm.cleanerTicker.Stop() };
\* StopCleaner returns
StopTicker(t) ==
    /\ pc[t] = "stop_ticker"
    /\ tickers' = IF cleanerTicker # NoTicker
                  THEN [tickers EXCEPT ![cleanerTicker].stopped = TRUE]
                  ELSE tickers
    /\ IF op[t].name = "StopCleaner"
       THEN /\ Return(t, Returned("StopCleaner", NoKey))
            /\ hist' = [hist EXCEPT !.stopDone = TRUE]
       ELSE /\ pc' = [pc EXCEPT ![t] = AfterStop(t, op[t].name)]
            /\ UNCHANGED <<op, ret, hist>>
    /\ UNCHANGED <<now, container, heap, pool, mtx, nOps, lp,
                   cleanerRunning, cleanerTicker>>

\* StartCleanerInternal: tm.cleanerTicker = time.NewTicker(interval)
StartTicker(t) ==
    /\ pc[t] = "start_ticker"
    /\ LET i == Min(Tickers \ TickersInUse)
       IN  /\ cleanerTicker' = i
           /\ tickers' = [tickers EXCEPT ![i] = NoTickerObj]
    /\ pc' = [pc EXCEPT ![t] = "start_go"]
    /\ UNCHANGED <<now, container, heap, pool, mtx, op, ret, nOps, lp,
                   cleanerRunning, hist>>

\* (variant with an error: the start call returns without its go statement)
StartGo_noLoop(t) ==
    /\ pc[t] = "start_go"
    /\ Return(t, Returned(op[t].name, NoKey))
    /\ hist' = [hist EXCEPT !.source = IF op[t].name = "StartCleanerInternal"
                                       THEN "internal" ELSE "external"]
    /\ UNCHANGED <<now, container, heap, pool, mtx, nOps, lp,
                   cleanerRunning, cleanerTicker, tickers>>

\* go tm.cleanupLoop(tm.cleanerTicker.C), or go tm.cleanupLoop(initiator);
\* the start call returns
StartGo(t) ==
    /\ pc[t] = "start_go"
    /\ LET l == Min({x \in Loops : lp[x].pc = "none"})
           tc == IF op[t].name = "StartCleanerInternal" THEN cleanerTicker ELSE ExtChan
       IN  lp' = [lp EXCEPT ![l] = [NoLoop EXCEPT !.pc = "spawned", !.tc = tc]]
    /\ Return(t, Returned(op[t].name, NoKey))
    /\ hist' = [hist EXCEPT !.source = IF op[t].name = "StartCleanerInternal"
                                       THEN "internal" ELSE "external"]
    /\ UNCHANGED <<now, container, heap, pool, mtx, nOps,
                   cleanerRunning, cleanerTicker, tickers>>

\* ------------------------------------------------------------------------
\* Specifications

\* no call and no sweep pass is in progress
Quiet ==
    /\ \A t \in Callers : pc[t] = "idle"
    /\ \A l \in Loops : ~InPass(l)

\* the caller of the specification without concurrent calls
Solo == 1

\* the duration argument of a call built on get: only Refresh and
\* SetExpires have one
DurationsOf(name) == IF name \in {"Refresh", "SetExpires"} THEN TTLs ELSE {0}

\* The store used by one goroutine and never swept: New(0), the calls one
\* after the other, time passing between them.
NextLazy ==
    \/ Quiet /\ AdvanceTime
    \/ \E k \in KeyWraps, val \in Vals, d \in TTLs, cbs \in CbLists :
         SetCall(Solo, k, val, d, cbs)
    \/ SetValue(Solo)
    \/ SetExpiresField(Solo)
    \/ SetCbs(Solo)
    \/ SetLock(Solo)
    \/ SetNewExpires(Solo)
    \/ SetInsert(Solo)
    \/ \E name \in GetNames, k \in KeyWraps :
         \E d \in DurationsOf(name) : GetCall(Solo, name, k, d)
    \/ GetCheck(Solo)
    \/ GetLock(Solo)
    \/ GetCb(Solo)
    \/ GetValueRead(Solo)
    \/ GetExpiresRead(Solo)
    \/ RefreshWrite(Solo)
    \/ SetExpiresWrite(Solo)
    \/ \E k \in KeyWraps : Remove(Solo, k)
    \/ \E sec \in Sections : FlushCall(Solo, sec)
    \/ FlushVisit(Solo)
    \/ FlushEnd(Solo)
    \/ \E sec \in Sections : Size(Solo, sec)
    \/ \E sec \in Sections : Snapshot(Solo, sec)

SpecLazy == InitStopped /\ [][NextLazy]_vars

\* The store filled by one goroutine and swept by the cleanup loop that New
\* started, one call or sweep pass at a time.
NextSweep ==
    \/ Quiet /\ AdvanceTime
    \/ \E k \in KeyWraps, val \in Vals, d \in TTLs, cbs \in CbLists :
         Quiet /\ SetCall(Solo, k, val, d, cbs)
    \/ SetValue(Solo)
    \/ SetExpiresField(Solo)
    \/ SetCbs(Solo)
    \/ SetLock(Solo)
    \/ SetNewExpires(Solo)
    \/ SetInsert(Solo)
    \/ \E l \in Loops : LoopBegin(l)
    \/ \E i \in Tickers : TickerFire(i)
    \/ \E l \in Loops : Quiet /\ LoopTick(l)
    \/ \E l \in Loops : PassLock(l)
    \/ \E l \in Loops : PassVisit(l)
    \/ \E l \in Loops : PassCbs(l)
    \/ \E l \in Loops : PassCb(l)
    \/ \E l \in Loops : PassUnlock(l)

InitSweep == InitInternal \/ InitExternal

SpecSweep == InitSweep /\ [][NextSweep]_vars

\* ------------------------------------------------------------------------
\* Lazy expiration (SpecLazy)

\* the calls that report whether get found the key
Lookups == GetNames

\* the callbacks of an entry, each called with the entry's value, in the
\* order of registration
CallsOf(entry) == [i \in 1..Len(entry.cbs) |-> <<entry.cbs[i], entry.val>>]

\* C1: without any sweep, a lookup of a key that was set reports the key
\* present at every instant strictly before the deadline set for it, and
\* absent at every instant strictly after it.
C1_LazyExpiration ==
    LET r == ret[Solo]
    IN  (r.name \in Lookups /\ r.pre.set)
          => /\ r.at < r.pre.deadline => r.found
             /\ r.at > r.pre.deadline => ~r.found

\* a lookup after the deadline has reported the key absent, no cleanup loop
\* having existed
C1_Witness ==
    LET r == ret[Solo]
    IN  /\ r.name \in {"Contains", "GetValue"}
        /\ r.pre.set
        /\ r.at > r.pre.deadline
        /\ ~r.found
        /\ \A l \in Loops : lp[l].pc = "none"

\* C2 as claimed: a lookup at or after the deadline (now >= expires)
\* reports the key absent.
C2_AbsentAtDeadline ==
    LET r == ret[Solo]
    IN  (r.name \in Lookups /\ r.pre.set /\ r.at >= r.pre.deadline) => ~r.found

\* C2 as amended: the deadline itself is not yet expired.  A lookup at the
\* instant now = expires reports the key present and evicts nothing; only a
\* lookup at now > expires reports it absent and evicts the entry.
C2_PresentAtDeadline ==
    LET r == ret[Solo]
    IN  (r.name \in Lookups /\ r.pre.set)
          => /\ r.at = r.pre.deadline => (r.found /\ ~r.evicted /\ r.k \in Stored)
             /\ r.at > r.pre.deadline => (~r.found /\ r.evicted /\ r.k \notin Stored)

\* a lookup at the very instant of the deadline has found the key
C2_Witness ==
    LET r == ret[Solo]
    IN  /\ r.name \in Lookups
        /\ r.pre.set
        /\ r.at = r.pre.deadline
        /\ r.found

\* C3: a lookup that finds the stored entry of its key expired removes the
\* entry from the container, has called every callback of the last set of
\* the key exactly once, in the order of registration, each with the value
\* of the entry, and reports the key absent.
C3_LazyEviction ==
    LET r == ret[Solo]
    IN  /\ r.evicted
          => /\ r.name \in Lookups
             /\ ~r.found
             /\ r.k \notin Stored
             /\ r.pre.set
             /\ r.fired = CallsOf(r.pre)
        /\ (r.name \in Lookups /\ r.pre.set /\ r.at > r.pre.deadline) => r.evicted

\* a lookup has evicted an entry that had two callbacks
C3_Witness ==
    LET r == ret[Solo]
    IN  r.evicted /\ Len(r.fired) = 2 /\ r.k \notin Stored

\* ------------------------------------------------------------------------
\* The sweep pass (SpecSweep)

\* the pass of loop l holds the lock
PassLocked(l) == lp[l].pc \in {"pass_range", "pass_cbs", "pass_cb"}

\* the pass of loop l has visited every entry and is about to unlock
PassDone(l) == lp[l].pc = "pass_range" /\ lp[l].todo = {}

\* the element stored for key k is what entry says
StoredAs(k, entry) ==
    /\ k \in Stored
    /\ heap[container[k]] =
         [value |-> entry.val, expires |-> entry.deadline, cbs |-> entry.cbs]

\* C6: a pass started by a tick holds the write lock from its one Lock to
\* its Unlock, and when it ends every entry, of whatever section, whose
\* deadline had passed at the instant of the tick is deleted and its
\* callbacks have been called once each, in order, with its value, while
\* every entry whose deadline had not passed is stored unchanged and none
\* of its callbacks was called.
C6_SweepPass ==
    \A l \in Loops :
      /\ PassLocked(l) => mtx = LoopThread(l)
      /\ PassDone(l) =>
           \A k \in KeyWraps :
             LET e == lp[l].snapL[k]
             IN  IF e.set /\ lp[l].now > e.deadline
                 THEN /\ k \notin Stored
                      /\ k \in lp[l].evicted
                      /\ lp[l].fired[k] = CallsOf(e)
                 ELSE /\ k \notin lp[l].evicted
                      /\ lp[l].fired[k] = <<>>
                      /\ e.set => StoredAs(k, e)
                      /\ ~e.set => k \notin Stored

\* a pass ends that has expired an entry with callbacks in one section and
\* kept an entry of the other section
C6_Witness ==
    \E l \in Loops, k1, k2 \in KeyWraps :
      /\ PassDone(l)
      /\ k1.sec # k2.sec
      /\ k1 \in lp[l].evicted
      /\ Len(lp[l].fired[k1]) = 2
      /\ lp[l].snapL[k2].set
      /\ k2 \in Stored

\* ------------------------------------------------------------------------
\* The sweep collects (SpecCollect)

\* the steps inside a call of set
SetSteps(t) ==
    \/ SetValue(t)
    \/ SetExpiresField(t)
    \/ SetCbs(t)
    \/ SetLock(t)
    \/ SetNewExpires(t)
    \/ SetInsert(t)

\* As SpecSweep, with one value and at most one callback per entry: the
\* store is only filled, and nothing but the cleanup loop empties it.
NextCollect ==
    \/ Quiet /\ AdvanceTime
    \/ \E k \in KeyWraps, d \in TTLs, cbs \in {<<>>, <<1>>} :
         Quiet /\ SetCall(Solo, k, 1, d, cbs)
    \/ SetValue(Solo)
    \/ SetExpiresField(Solo)
    \/ SetCbs(Solo)
    \/ SetLock(Solo)
    \/ SetNewExpires(Solo)
    \/ SetInsert(Solo)
    \/ \E l \in Loops : LoopBegin(l)
    \/ \E i \in Tickers : TickerFire(i)
    \/ \E l \in Loops : Quiet /\ LoopTick(l)
    \/ \E l \in Loops : PassLock(l)
    \/ \E l \in Loops : PassVisit(l)
    \/ \E l \in Loops : PassCbs(l)
    \/ \E l \in Loops : PassCb(l)
    \/ \E l \in Loops : PassUnlock(l)

\* Go schedules every goroutine that can run, a ticker that is not stopped
\* keeps ticking, and the sender of the external channel keeps sending:
\* a started call is finished, and the cleanup loop takes its next step and
\* the next tick.
FairCollect ==
    /\ WF_vars(SetSteps(Solo))
    /\ \A i \in Tickers : WF_vars(TickerFire(i))
    /\ \A l \in Loops :
         /\ WF_vars(LoopBegin(l))
         /\ WF_vars(Quiet /\ LoopTick(l))
         /\ WF_vars(PassLock(l))
         /\ WF_vars(PassVisit(l))
         /\ WF_vars(PassCbs(l))
         /\ WF_vars(PassCb(l))
         /\ WF_vars(PassUnlock(l))

SpecCollect == InitSweep /\ [][NextCollect]_vars /\ FairCollect

\* the entry stored for key k is past its deadline
Expired(k) == k \in Stored /\ After(now, heap[container[k]].expires)

\* C7: while the cleanup loop runs and ticks keep arriving, an entry past
\* its deadline does not stay stored: without any call on its key it is
\* deleted from the container (unless a new set gives the key a deadline
\* that has not passed).
C7_SweepCollects == \A k \in KeyWraps : Expired(k) ~> ~Expired(k)

\* a pass has deleted an expired entry that no lookup has touched
C7_Witness ==
    \E l \in Loops, k \in KeyWraps :
      /\ PassLocked(l)
      /\ k \in lp[l].evicted
      /\ k \notin Stored
      /\ ret[Solo].name = "Set"

\* ------------------------------------------------------------------------
\* Concurrent use (SpecConc)

\* the goroutines that call Set, and those that call GetValue
Writers == {1}
Readers == Callers \ Writers

\* the calls each of them makes
MaxConcOps == 2

\* the key they use
ConcKey == [sec |-> 0, key |-> 1]

\* One goroutine sets, the others look up, the cleanup loop sweeps, and
\* time passes, all interleaved step by step.
NextConc ==
    \/ AdvanceTime
    \/ \E t \in Writers, val \in Vals, d \in TTLs, cbs \in {<<>>, <<1>>} :
         nOps[t] < MaxConcOps /\ SetCall(t, ConcKey, val, d, cbs)
    \/ \E t \in Writers : SetValue(t)
    \/ \E t \in Writers : SetExpiresField(t)
    \/ \E t \in Writers : SetCbs(t)
    \/ \E t \in Writers : SetLock(t)
    \/ \E t \in Writers : SetNewExpires(t)
    \/ \E t \in Writers : SetInsert(t)
    \/ \E t \in Readers : nOps[t] < MaxConcOps /\ GetCall(t, "GetValue", ConcKey, 0)
    \/ \E t \in Readers : GetCheck(t)
    \/ \E t \in Readers : GetLock(t)
    \/ \E t \in Readers : GetCb(t)
    \/ \E t \in Readers : GetValueRead(t)
    \/ \E l \in Loops : LoopBegin(l)
    \/ \E l \in Loops : LoopTick(l)
    \/ \E l \in Loops : PassLock(l)
    \/ \E l \in Loops : PassVisit(l)
    \/ \E l \in Loops : PassCbs(l)
    \/ \E l \in Loops : PassCb(l)
    \/ \E l \in Loops : PassUnlock(l)

SpecConc == InitExternal /\ [][NextConc]_vars

\* C4: an expired entry is evicted at most once: expireElement never
\* releases an element that is not (or no longer) the stored entry of its
\* key, and no element is in the pool twice.
C4_EvictedOnce ==
    /\ ~hist.staleEvict
    /\ \A e \in Elems : pool[e] <= 1

\* C5: a GetValue of a key that begins after a set of that key has
\* returned, overlaps no set of that key and returns before the deadline
\* of that set returns the value of that set.
C5_ReadsLastWrite ==
    \A t \in Readers :
      LET r == ret[t]
      IN  (r.name = "GetValue" /\ r.last.set /\ r.end < r.last.deadline)
            => (r.found /\ r.val = r.last.val)

\* ------------------------------------------------------------------------
\* Starting and stopping the cleanup loop (SpecLife)

\* One goroutine calls StartCleanerInternal, StartCleanerExternal and
\* StopCleaner one after the other on an empty map, while the cleanup
\* loops it has started run.
NextLife ==
    \/ \E name \in StartNames : StartCall(Solo, name)
    \/ StopCall(Solo)
    \/ StopCheck(Solo)
    \/ StopTicker(Solo)
    \/ StartTicker(Solo)
    \/ StartGo(Solo)
    \/ \E l \in Loops : LoopBegin(l)
    \/ \E i \in Tickers : TickerFire(i)
    \/ \E l \in Loops : LoopTick(l)
    \/ \E l \in Loops : PassLock(l)
    \/ \E l \in Loops : PassUnlock(l)
    \/ \E l \in Loops : LoopStop(l, Solo)
    \/ \E l \in Loops : LoopExit(l)

SpecLife == Init /\ [][NextLife]_vars

\* a caller waits in StopCleaner's send and no cleanup loop exists that
\* could receive
Blocked(t) ==
    /\ pc[t] = "stop_send"
    /\ \A l \in Loops : lp[l].pc = "none"

\* C8: a StopCleaner called after a StopCleaner has returned, or on a map
\* whose cleanup loop is stopped, does not block.
C8_StopTwiceReturns ==
    \A t \in Callers :
      (op[t].name = "StopCleaner" /\ hist.stopDone) => ~Blocked(t)

\* C9: after StopCleaner has returned, and until the next start call, no
\* cleanup loop receives a tick and begins a pass.
C9_StoppedStaysStopped ==
    [][hist.stopDone =>
         \A l \in Loops : ~(lp[l].pc = "select" /\ lp'[l].pc = "pass_lock")]_vars

\* the cleanup loops that are in their for loop
Looping == {l \in Loops : lp[l].pc = "select" \/ InPass(l)}

\* C10: at most one cleanup loop is in its for loop.
C10_OneLoop == Cardinality(Looping) <= 1


\* C11: while the tick source of the last start is the external channel,
\* a cleanup loop begins a pass only on a tick of an external channel,
\* never on a tick of the internal ticker.
C11_OneTickSource ==
    [][hist.source = "external" =>
         \A l \in Loops :
           (lp[l].pc = "select" /\ lp'[l].pc = "pass_lock") => lp[l].tc = ExtChan]_vars


\* ------------------------------------------------------------------------
\* From stopped to running (SpecRestart)

\* New(0): the store is filled by one goroutine that looks nothing up,
\* and that may start the cleanup loop once.
NextRestart ==
    \/ Quiet /\ AdvanceTime
    \/ \E k \in KeyWraps, d \in TTLs, cbs \in {<<>>, <<1>>} :
         Quiet /\ SetCall(Solo, k, 1, d, cbs)
    \/ SetValue(Solo)
    \/ SetExpiresField(Solo)
    \/ SetCbs(Solo)
    \/ SetLock(Solo)
    \/ SetNewExpires(Solo)
    \/ SetInsert(Solo)
    \/ \E name \in StartNames : ~hist.started /\ Quiet /\ StartCall(Solo, name)
    \/ StartTicker(Solo)
    \/ StartGo(Solo)
    \/ \E l \in Loops : LoopBegin(l)
    \/ \E i \in Tickers : TickerFire(i)
    \/ \E l \in Loops : Quiet /\ LoopTick(l)
    \/ \E l \in Loops : PassLock(l)
    \/ \E l \in Loops : PassVisit(l)
    \/ \E l \in Loops : PassCbs(l)
    \/ \E l \in Loops : PassCb(l)
    \/ \E l \in Loops : PassUnlock(l)

\* as FairCollect; a start call that has begun also runs to its end
FairRestart ==
    /\ FairCollect
    /\ WF_vars(StartTicker(Solo))
    /\ WF_vars(StartGo(Solo))

SpecRestart == InitStopped /\ [][NextRestart]_vars /\ FairRestart

\* C12: on a store made by New(0), as long as no start call has begun,
\* no cleanup loop exists and every entry that was set stays stored as it
\* was set (until it is set again), past its deadline too; once StartCleanerInternal or
\* StartCleanerExternal has been called, an entry past its deadline does
\* not stay stored.
C12_StoppedUntilStarted ==
    /\ [](~hist.started =>
            /\ \A l \in Loops : lp[l].pc = "none"
            /\ \A k \in KeyWraps :
                 (hist.live[k].set /\ ~Setting(k)) => StoredAs(k, hist.live[k]))
    /\ \A k \in KeyWraps : (hist.started /\ Expired(k)) ~> ~Expired(k)

\* a loop started on the stopped store has deleted an expired entry
C12_Witness ==
    \E l \in Loops, k \in KeyWraps :
      /\ ret[Solo].name \in StartNames
      /\ PassLocked(l)
      /\ k \in lp[l].evicted
      /\ k \notin Stored


\* ------------------------------------------------------------------------
\* Refresh, SetExpires, GetExpires (SpecLazy)

\* caller t is in a call of name that has found its entry, and the step
\* is the one that ends the call
Finishes(t, name) ==
    /\ pc[t] = "get_use"
    /\ op[t].name = name
    /\ pc'[t] = "idle"

\* C13: Refresh(k, d) on an entry set with value, deadline t0 and
\* callbacks leaves the element of k with deadline t0 + d, and
\* SetExpires(k, d) leaves it with deadline now + d whatever t0 was; both
\* leave the value and the callbacks as they were set, and touch no other
\* key.
C13_RefreshAdditive ==
    [][\A t \in Callers :
         LET k == op[t].k
             e == hist.live[k]
         IN  /\ Finishes(t, "Refresh") =>
                 /\ e.set
                 /\ container' = container
                 /\ k \in Stored
                 /\ heap'[container[k]] =
                      [value |-> e.val, expires |-> e.deadline + op[t].d, cbs |-> e.cbs]
                 /\ \A x \in Elems \ {container[k]} : heap'[x] = heap[x]
             /\ Finishes(t, "SetExpires") =>
                 /\ e.set
                 /\ container' = container
                 /\ k \in Stored
                 /\ heap'[container[k]] =
                      [value |-> e.val, expires |-> now + op[t].d, cbs |-> e.cbs]
                 /\ \A x \in Elems \ {container[k]} : heap'[x] = heap[x]]_vars

\* a Refresh has moved a deadline to an instant that is not now + d
C13_Witness ==
    LET r == ret[Solo]
    IN  /\ r.name = "Refresh"
        /\ r.found
        /\ r.pre.set
        /\ r.exp = r.pre.deadline + 1
        /\ r.exp # r.at + 1
        /\ StoredAs(r.k, [r.pre EXCEPT !.deadline = r.exp])


\* the calls that return an error value
ErrNames == {"GetExpires", "SetExpires", "Refresh"}

\* C14: GetExpires, SetExpires and Refresh return ErrKeyNotFound exactly
\* when no entry is set for the key or the entry that is set is past its
\* deadline (now.After(expires)), and nil otherwise, GetExpires then
\* returning the deadline; no other call returns an error.
C14_KeyNotFound ==
    \A t \in Callers :
      LET r == ret[t]
          usable == r.pre.set /\ ~(r.at > r.pre.deadline)
      IN  /\ r.name \in ErrNames =>
              /\ r.err = "ErrKeyNotFound" <=> ~usable
              /\ r.err = "nil" <=> usable
              /\ r.found <=> usable
          /\ (r.name = "GetExpires" /\ usable) => r.exp = r.pre.deadline
          /\ r.name \notin ErrNames => r.err = "nil"

\* a Refresh of a key whose entry is past its deadline has returned
\* ErrKeyNotFound
C14_Witness ==
    LET r == ret[Solo]
    IN  /\ r.name = "Refresh"
        /\ r.pre.set
        /\ r.at > r.pre.deadline
        /\ r.err = "ErrKeyNotFound"


\* ------------------------------------------------------------------------
\* The whole store, one call at a time (SpecStore)

\* the goroutine that changes the store, and the one that looks at it
Mutator == 1
Observer == 2

\* New(0): one goroutine calls Set, Contains, Remove and Flush on the map
\* and its sections, another calls Size and Snapshot, one call after the
\* other, time passing between the calls.
NextStore ==
    \/ Quiet /\ AdvanceTime
    \/ \E k \in KeyWraps, val \in Vals, d \in TTLs, cbs \in {<<>>, <<1>>} :
         Quiet /\ SetCall(Mutator, k, val, d, cbs)
    \/ SetValue(Mutator)
    \/ SetExpiresField(Mutator)
    \/ SetCbs(Mutator)
    \/ SetLock(Mutator)
    \/ SetNewExpires(Mutator)
    \/ SetInsert(Mutator)
    \/ \E k \in KeyWraps : Quiet /\ GetCall(Mutator, "Contains", k, 0)
    \/ GetCheck(Mutator)
    \/ GetLock(Mutator)
    \/ GetCb(Mutator)
    \/ \E k \in KeyWraps : Quiet /\ Remove(Mutator, k)
    \/ \E sec \in Sections : Quiet /\ FlushCall(Mutator, sec)
    \/ FlushVisit(Mutator)
    \/ FlushEnd(Mutator)
    \/ \E sec \in Sections : Quiet /\ Size(Observer, sec)
    \/ \E sec \in Sections : Quiet /\ Snapshot(Observer, sec)

SpecStore == InitStopped /\ [][NextStore]_vars


\* history: the keys of section sec for which an entry is set
LiveIn(sec) == {k \in KeyWraps : k.sec = sec /\ hist.live[k].set}

\* key k and the element stored for it are the same before and after
\* the step
Untouched(k) ==
    /\ container'[k] = container[k]
    /\ k \in Stored => heap'[container[k]] = heap[container[k]]

\* the step is one of a Flush that caller t has called on section sec
FlushStep(t, sec) ==
    \/ /\ pc[t] = "idle"
       /\ nOps'[t] # nOps[t]
       /\ ret'[t].name = "Flush"
       /\ ret'[t].k = SecKey(sec)
    \/ /\ pc[t] = "flush_range"
       /\ op[t].k = SecKey(sec)

\* the step is one of a Set that caller t has called on key k
SetStep(t, k) ==
    \/ /\ op[t].name = "Set" /\ op[t].k = k
    \/ /\ pc[t] = "idle" /\ op'[t].name = "Set" /\ op'[t].k = k

\* C15: a Set on a key of one section changes no entry of another
\* section, and a Flush called on the Section view of section A, for
\* A = 0 as for every other A, changes no entry of another section and
\* leaves no entry of section A.
C15_SectionIsolation ==
    /\ [][\A t \in Callers, k \in KeyWraps :
            /\ SetStep(t, k) => \A j \in KeyWraps : j.sec # k.sec => Untouched(j)
            /\ FlushStep(t, k.sec) => \A j \in KeyWraps : j.sec # k.sec => Untouched(j)]_vars
    /\ [](\A t \in Callers : ret[t].name = "Flush" => StoredIn(ret[t].k.sec) = {})

\* the step is a call of name by caller t on section sec
SectionCall(t, name, sec) ==
    /\ pc[t] = "idle"
    /\ nOps'[t] # nOps[t]
    /\ ret'[t].name = name
    /\ ret'[t].k = SecKey(sec)

\* C16: Size called on section sec, on the map itself for section 0,
\* returns the number of keys of that section for which an entry is set
\* and neither removed nor evicted, expired or not.
C16_SizeOfSection ==
    [][\A t \in Callers, sec \in Sections :
         SectionCall(t, "Size", sec) => ret'[t].size = Cardinality(LiveIn(sec))]_vars

\* C17: Snapshot called on section sec returns the map from the user keys
\* of that section for which an entry is set, expired or not, to the
\* values set for them, and what it has returned does not change when the
\* store changes afterwards.
C17_Snapshot ==
    [][\A t \in Callers :
         /\ \A sec \in Sections :
              SectionCall(t, "Snapshot", sec) =>
                ret'[t].snap = [key \in {k.key : k \in LiveIn(sec)} |->
                                  hist.live[[sec |-> sec, key |-> key]].val]
         /\ (ret[t].name = "Snapshot" /\ nOps'[t] = nOps[t]) => ret'[t] = ret[t]]_vars

\* a snapshot holds a value for a key that has been deleted since
C17_Witness ==
    LET r == ret[Observer]
    IN  /\ r.name = "Snapshot"
        /\ r.snap # <<>>
        /\ StoredIn(r.k.sec) = {}
        /\ Stored # {}

\* C19: when Flush called on the map has returned the container is empty,
\* when Flush called on a section has returned no entry of that section
\* is stored, and no callback was called.
C19_Flush ==
    \A t \in Callers :
      LET r == ret[t]
      IN  r.name = "Flush" =>
            /\ r.k.sec = 0 => Stored = {}
            /\ StoredIn(r.k.sec) = {}
            /\ r.fired = <<>>
            /\ \A l \in Loops : \A k \in KeyWraps : lp[l].fired[k] = <<>>

\* Flush on the map has released the entries of two sections, one of them
\* with a callback and past its deadline
C19_Witness ==
    LET r == ret[Mutator]
    IN  /\ r.name = "Flush"
        /\ r.k.sec = 0
        /\ nOps[Mutator] = 3
        /\ \E e1, e2 \in Elems :
             /\ e1 # e2
             /\ pool[e1] = 1 /\ pool[e2] = 1
             /\ heap[e1].cbs # <<>>
             /\ now > heap[e1].expires


\* ------------------------------------------------------------------------
\* Remove, then lookups and sweep passes (SpecRemove)

\* New(0, tickerChan): one goroutine calls Set, Remove and Contains, and
\* the cleanup loop sweeps between the calls.
NextRemove ==
    \/ Quiet /\ AdvanceTime
    \/ \E k \in KeyWraps, d \in TTLs, cbs \in {<<>>, <<1>>} :
         Quiet /\ SetCall(Solo, k, 1, d, cbs)
    \/ SetValue(Solo)
    \/ SetExpiresField(Solo)
    \/ SetCbs(Solo)
    \/ SetLock(Solo)
    \/ SetNewExpires(Solo)
    \/ SetInsert(Solo)
    \/ \E k \in KeyWraps : Quiet /\ GetCall(Solo, "Contains", k, 0)
    \/ GetCheck(Solo)
    \/ GetLock(Solo)
    \/ GetCb(Solo)
    \/ \E k \in KeyWraps : Quiet /\ Remove(Solo, k)
    \/ \E l \in Loops : LoopBegin(l)
    \/ \E l \in Loops : Quiet /\ LoopTick(l)
    \/ \E l \in Loops : PassLock(l)
    \/ \E l \in Loops : PassVisit(l)
    \/ \E l \in Loops : PassCbs(l)
    \/ \E l \in Loops : PassCb(l)
    \/ \E l \in Loops : PassUnlock(l)

SpecRemove == InitExternal /\ [][NextRemove]_vars

\* the step is a Remove of key k by caller t
RemoveStep(t, k) ==
    /\ pc[t] = "idle"
    /\ nOps'[t] # nOps[t]
    /\ ret'[t].name = "Remove"
    /\ ret'[t].k = k

\* C18: Remove of a key leaves no entry stored for it, whether the entry
\* was past its deadline or not, changes no other entry and no element,
\* and calls no callback; it changes nothing when the key has no entry.
\* A lookup or a sweep pass that finds nothing set for the key since reports
\* it absent, expires nothing and calls no callback for it.
C18_Remove ==
    /\ [][\A t \in Callers, k \in KeyWraps :
            RemoveStep(t, k) =>
              /\ container'[k] = NilElem
              /\ \A j \in KeyWraps \ {k} : Untouched(j)
              /\ heap' = heap
              /\ lp' = lp
              /\ ret'[t].fired = <<>>
              /\ k \notin Stored => (container' = container /\ pool' = pool)]_vars
    /\ [](\A t \in Callers :
            LET r == ret[t]
            IN  (r.name \in Lookups /\ ~r.pre.set)
                  => (~r.found /\ ~r.evicted /\ r.fired = <<>>))
    /\ [](\A l \in Loops :
            PassDone(l) =>
              \A k \in KeyWraps :
                ~lp[l].snapL[k].set => (k \notin lp[l].evicted /\ lp[l].fired[k] = <<>>))

\* after a Remove of an entry with a callback, a sweep pass at an instant
\* past the deadline of that entry has ended without calling anything
C18_Witness ==
    \E l \in Loops, e \in Elems :
      /\ ret[Solo].name = "Remove"
      /\ ret[Solo].found
      /\ nOps[Solo] = 2
      /\ PassDone(l)
      /\ pool[e] = 1
      /\ heap[e].cbs # <<>>
      /\ lp[l].now > heap[e].expires
      /\ \A k \in KeyWraps : lp[l].fired[k] = <<>>


\* ------------------------------------------------------------------------
\* Set on a key that has an entry (SpecLazy)

\* C20: the step that ends a Set on a key that had a stored entry leaves
\* the same keys stored, the element of the key holding the value of this
\* Set, the deadline now + ttl and exactly the callbacks of this Set, and
\* every other element as it was; a lookup that later expires the entry
\* calls the callbacks of this last Set, in order, with its value, and
\* nothing else.
C20_SetOverwrites ==
    /\ [][\A t \in Callers :
            (pc[t] = "set_cbs" /\ pc'[t] = "idle") =>
              LET k == op[t].k
                  last == [set |-> TRUE, val |-> op[t].val,
                           deadline |-> now + op[t].d, cbs |-> op[t].cbs]
              IN  /\ k \in Stored
                  /\ container' = container
                  /\ heap'[container[k]] =
                       [value |-> last.val, expires |-> last.deadline, cbs |-> last.cbs]
                  /\ \A x \in Elems \ {container[k]} : heap'[x] = heap[x]
                  /\ hist'.live[k] = last]_vars
    /\ [](\A t \in Callers : ret[t].evicted => ret[t].fired = CallsOf(ret[t].pre))

\* a Set has returned that has overwritten the stored entry of its key
C20_Witness ==
    LET r == ret[Solo]
    IN  /\ r.name = "Set"
        /\ r.found
        /\ nOps[Solo] = 2
        /\ Cardinality(Stored) = 1
        /\ heap[container[r.k]].cbs = <<1>>
        /\ heap[container[r.k]].value = 2


\* ------------------------------------------------------------------------
\* GetValue (SpecLazy)

\* C21: GetValue of a key returns the value of the last Set of the key
\* when an entry is set for it (not removed, flushed or evicted since) and
\* is not past its deadline, and the zero value of the value type in every
\* other case.
C21_GetValue ==
    \A t \in Callers :
      LET r == ret[t]
          usable == r.pre.set /\ ~(r.at > r.pre.deadline)
      IN  r.name = "GetValue" =>
            /\ usable => (r.found /\ r.val = r.pre.val /\ r.val \in Vals)
            /\ ~usable => (~r.found /\ r.val = ZeroVal)

\* a GetValue has returned the value of the second Set of its key
C21_Witness ==
    LET r == ret[Solo]
    IN  /\ r.name = "GetValue"
        /\ r.found
        /\ r.val = 2
        /\ nOps[Solo] = 3
        /\ \E e \in Elems : heap[e].value = 2 /\ \A x \in Elems \ {e} : heap[x] = ZeroElement


\* ------------------------------------------------------------------------
\* Section views (SpecStore)

\* C22: for every section identifier s the view Section(s) has Ident s,
\* and a call through it does what the map's operation on section s does:
\* Remove deletes the key of section s and nothing else, Size counts and
\* Snapshot copies the entries of section s, and every step of Flush
\* deletes entries of section s only.
C22_ViewsDelegate ==
    [][\A t \in Callers, s \in Sections :
         LET sec == Ident(Section(s))
         IN  /\ sec = s
             /\ \A key \in UserKeys :
                  RemoveStep(t, [sec |-> s, key |-> key]) =>
                    container' = [container EXCEPT ![[sec |-> sec, key |-> key]] = NilElem]
             /\ SectionCall(t, "Size", s) =>
                  ret'[t].size = Cardinality(StoredIn(sec))
             /\ SectionCall(t, "Snapshot", s) =>
                  DOMAIN ret'[t].snap = {k.key : k \in StoredIn(sec)}
             /\ FlushStep(t, s) =>
                  \A k \in KeyWraps :
                    container'[k] # container[k] => (k.sec = sec /\ container'[k] = NilElem)]_vars


\* ------------------------------------------------------------------------
\* Concurrent StopCleaner calls (SpecStop)

\* Two goroutines call StopCleaner on a new map, at any moment of the
\* cleanup loop's run (before it has begun, in its select, during a pass)
\* and at the same time as each other, as long as no StopCleaner has
\* returned.
NextStop ==
    \/ \E t \in Callers : ~hist.stopDone /\ StopCall(t)
    \/ \E t \in Callers : StopTicker(t)
    \/ \E l \in Loops : LoopBegin(l)
    \/ \E i \in Tickers : TickerFire(i)
    \/ \E l \in Loops : LoopTick(l)
    \/ \E l \in Loops : PassLock(l)
    \/ \E l \in Loops : PassUnlock(l)
    \/ \E l \in Loops, t \in Callers : LoopStop(l, t)
    \/ \E l \in Loops : LoopExit(l)

\* every goroutine that can take a step takes one; a select in which the
\* receive from cleanerStopChan is ready again and again chooses it at
\* some time (select picks among its ready cases at random)
FairStop ==
    /\ \A t \in Callers : WF_vars(StopTicker(t))
    /\ \A l \in Loops :
         /\ WF_vars(LoopBegin(l))
         /\ WF_vars(PassLock(l))
         /\ WF_vars(PassUnlock(l))
         /\ WF_vars(LoopExit(l))
         /\ SF_vars(\E t \in Callers : LoopStop(l, t))

SpecStop == Init /\ [][NextStop]_vars /\ FairStop

\* C23: a StopCleaner call that has passed its guard, made during a pass
\* or at the same time as another StopCleaner call, returns at some time,
\* and then no cleanup loop is in its for loop.
C23_StopReturns ==
    \A t \in Callers :
      (op[t].name = "StopCleaner") ~> (pc[t] = "idle" /\ Looping = {})


\* ------------------------------------------------------------------------
\* The lock (SpecConc)

\* the step is one of thread x: a caller, or the goroutine of a cleanup loop
Acts(x) ==
    IF x \in Callers
    THEN pc'[x] # pc[x] \/ op'[x] # op[x] \/ nOps'[x] # nOps[x]
    ELSE \E l \in Loops : x = LoopThread(l) /\ lp'[l] # lp[l]

\* C24: the container and the elements are written under the write lock:
\* while a thread holds it, a step that changes the container or a field
\* of an element (value, expires, cbs) is a step of that thread.
C24_MutationsLocked ==
    [][(mtx # NoThread /\ (container' # container \/ heap' # heap)) => Acts(mtx)]_vars


\* ------------------------------------------------------------------------
\* Reads of the container (SpecRead)

\* New(0): one goroutine calls Set while another calls Size and Flush on
\* the map and its sections, all interleaved step by step.
NextRead ==
    \/ \E k \in KeyWraps, val \in Vals, d \in TTLs :
         SetCall(Mutator, k, val, d, <<>>)
    \/ SetValue(Mutator)
    \/ SetExpiresField(Mutator)
    \/ SetCbs(Mutator)
    \/ SetLock(Mutator)
    \/ SetNewExpires(Mutator)
    \/ SetInsert(Mutator)
    \/ \E sec \in Sections : Size(Observer, sec)
    \/ \E sec \in Sections : FlushCall(Observer, sec)
    \/ FlushVisit(Observer)
    \/ FlushEnd(Observer)

SpecRead == InitStopped /\ [][NextRead]_vars

\* the step is a read of the container by Size (len, or the range of
\* section.Size) or by the range of section.Flush
Reads(t) ==
    \/ /\ pc[t] = "idle"
       /\ nOps'[t] # nOps[t]
       /\ ret'[t].name = "Size"
    \/ /\ pc[t] = "flush_range"
       /\ op[t].name = "Flush"

\* C25: Size and the range of section.Flush read the container under the
\* lock: none of their reads is made while another thread holds the
\* write lock.
C25_ReadsLocked ==
    [][\A t \in Callers : Reads(t) /\ Acts(t) => mtx \in {NoThread, t}]_vars


\* ------------------------------------------------------------------------
\* Concurrent Set calls on one key (SpecSets)

\* what goroutine t passes to Set: each goroutine has a value, a duration
\* and a callback list of its own
ArgsOf(t) ==
    [val |-> t,
     d |-> IF t = 1 THEN 0 ELSE MaxTTL,
     cbs |-> IF t = 1 THEN <<1>> ELSE <<2, 1>>]

\* New(0): the goroutines call Set on the same key of the same section,
\* each with its own arguments, all interleaved step by step.
NextSets ==
    \/ \E t \in Callers :
         SetCall(t, ConcKey, ArgsOf(t).val, ArgsOf(t).d, ArgsOf(t).cbs)
    \/ \E t \in Callers : SetValue(t)
    \/ \E t \in Callers : SetExpiresField(t)
    \/ \E t \in Callers : SetCbs(t)
    \/ \E t \in Callers : SetLock(t)
    \/ \E t \in Callers : SetNewExpires(t)
    \/ \E t \in Callers : SetInsert(t)

SpecSets == InitStopped /\ [][NextSets]_vars

\* the entry that a Set of goroutine t stores
EntryOf(t) ==
    [set |-> TRUE, val |-> ArgsOf(t).val, deadline |-> TimeAdd(now, ArgsOf(t).d),
     cbs |-> ArgsOf(t).cbs]

\* C26: when the Set calls made on a key have all returned, the entry
\* stored for the key has the value, the deadline and the callbacks of one
\* of the calls, all three of the same call.
C26_SetsSerialized ==
    (\E t \in Callers : ret[t].name = "Set") /\ ~Setting(ConcKey)
      => \E t \in Callers : ret[t].name = "Set" /\ StoredAs(ConcKey, EntryOf(t))


\* ------------------------------------------------------------------------
\* Set and a concurrent eviction (SpecConc)

\* C27: a Set with a positive duration that has returned is not lost to
\* an eviction that ran at the same time, by a sweep pass or by a lookup:
\* at every instant before the deadline it has set, and until the key is
\* set again, the key is stored with the value of that Set.
C27_SetNotLost ==
    \A k \in KeyWraps :
      LET e == LastSet(k)
      IN  (e.set /\ now < e.deadline)
            => (k \in Stored /\ heap[container[k]].value = e.val)


\* ------------------------------------------------------------------------
\* The callbacks of an eviction (SpecEvict)

\* New(0, tickerChan): one goroutine calls Set, with up to two callbacks,
\* and Contains, and the cleanup loop sweeps between the calls.
NextEvict ==
    \/ Quiet /\ AdvanceTime
    \/ \E k \in KeyWraps, d \in TTLs, cbs \in CbLists :
         Quiet /\ SetCall(Solo, k, 1, d, cbs)
    \/ SetValue(Solo)
    \/ SetExpiresField(Solo)
    \/ SetCbs(Solo)
    \/ SetLock(Solo)
    \/ SetNewExpires(Solo)
    \/ SetInsert(Solo)
    \/ \E k \in KeyWraps : Quiet /\ GetCall(Solo, "Contains", k, 0)
    \/ GetCheck(Solo)
    \/ GetLock(Solo)
    \/ GetCb(Solo)
    \/ \E l \in Loops : LoopBegin(l)
    \/ \E l \in Loops : Quiet /\ LoopTick(l)
    \/ \E l \in Loops : PassLock(l)
    \/ \E l \in Loops : PassVisit(l)
    \/ \E l \in Loops : PassCbs(l)
    \/ \E l \in Loops : PassCb(l)
    \/ \E l \in Loops : PassUnlock(l)

SpecEvict == InitExternal /\ [][NextEvict]_vars

\* the callbacks of element e, each called with its value, in order
CallsOfElem(e) == [i \in 1..Len(heap[e].cbs) |-> <<heap[e].cbs[i], heap[e].value>>]

\* C28: while expireElement calls the callbacks of an entry, on the
\* thread of the lookup or of the pass and under its lock, the entry is
\* still stored and its element is not in the pool, and the lookup has
\* not returned; the step that releases the element and deletes the key
\* comes when every callback of the entry has been called, and the lookup
\* or the pass ends with or after it.
C28_CallbacksFirst ==
    /\ [](\A t \in Callers :
            pc[t] = "get_cb" =>
              /\ mtx = t
              /\ container[op[t].k] = op[t].v
              /\ pool[op[t].v] = 0
              /\ ret[t] = NoRet)
    /\ [](\A l \in Loops :
            lp[l].pc = "pass_cb" =>
              /\ mtx = LoopThread(l)
              /\ container[lp[l].k] = lp[l].v
              /\ pool[lp[l].v] = 0)
    /\ [][\A t \in Callers :
            (pc[t] \in {"get_lock", "get_cb"} /\ Acts(t) /\ pool' # pool) =>
              /\ pc'[t] = "idle"
              /\ ret'[t].evicted
              /\ ret'[t].fired = CallsOfElem(op[t].v)]_vars
    /\ [][\A l \in Loops, k \in KeyWraps :
            (k \in lp'[l].evicted /\ k \notin lp[l].evicted) =>
              /\ lp'[l].fired[k] = CallsOfElem(container[k])
              /\ PassLocked(l) /\ lp'[l].pc = "pass_range"]_vars

\* a lookup has evicted an entry after its two callbacks, and a pass has
\* then evicted another entry after its two callbacks
C28_Witness ==
    /\ ret[Solo].name = "Contains"
    /\ ret[Solo].evicted
    /\ Len(ret[Solo].fired) = 2
    /\ \E l \in Loops, k \in KeyWraps :
         /\ k \in lp[l].evicted
         /\ Len(lp[l].fired[k]) = 2
         /\ k # ret[Solo].k


\* ------------------------------------------------------------------------
\* Start calls (SpecLife)

\* the tick source that a start call named name gives to its loop
SourceOf(name) == IF name = "StartCleanerInternal" THEN cleanerTicker ELSE ExtChan

\* C29: a start call does not block, also right after a StopCleaner or a
\* start call has returned; and when it has returned, exactly one cleanup
\* loop exists, which takes its ticks from the source of that call.
C29_StartTakesEffect ==
    \A t \in Callers :
      /\ op[t].name \in StartNames => ~Blocked(t)
      /\ (pc[t] = "idle" /\ ret[t].name \in StartNames) =>
           \E l \in Loops :
             /\ LiveLoops = {l}
             /\ lp[l].tc = SourceOf(ret[t].name)


\* ------------------------------------------------------------------------
\* The running flag (SpecLife)

\* no start or stop call is in progress and every goroutine that a start
\* has created has executed the first statement of cleanupLoop
Settled ==
    /\ \A t \in Callers : pc[t] = "idle"
    /\ \A l \in Loops : lp[l].pc # "spawned"

\* C30: whenever no start or stop call is in progress and every started
\* loop has begun, cleanerRunning is true exactly when one cleanup loop is
\* live; it is false when StopCleaner has returned, and true when a start
\* call has returned.
C30_FlagTracksLoop ==
    Settled =>
      /\ cleanerRunning <=> (Cardinality(LiveLoops) = 1)
      /\ hist.stopDone => ~cleanerRunning
      /\ (\E t \in Callers : ret[t].name \in StartNames) => cleanerRunning


\* ------------------------------------------------------------------------
\* What an eviction may delete (SpecConc)

\* the step deletes the entry of key k from the container
Deletes(k) == container[k] # NilElem /\ container'[k] = NilElem

\* the step calls a callback of an eviction of key k
CallsBack(k) ==
    \/ \E t \in Callers : pc[t] = "get_cb" /\ op[t].k = k /\ Acts(t)
    \/ \E l \in Loops : lp[l].pc = "pass_cb" /\ lp[l].k = k /\ Acts(LoopThread(l))

\* C31: a lookup or a sweep pass deletes an entry, or calls a callback for
\* its key, only if the deadline of the entry stored for the key at that
\* moment is not in the future, whatever a Set running at the same time
\* has written.
C31_OnlyExpiredEvicted ==
    [][\A k \in KeyWraps :
         ((Deletes(k) \/ CallsBack(k)) /\ container[k] # NilElem)
           => ~(heap[container[k]].expires > now)]_vars


\* ------------------------------------------------------------------------
\* Elements and the pool (SpecConc)

\* C32: no two keys of the container refer to the same element, no element
\* that the container refers to is in the pool, and no element is in the
\* pool twice.
C32_NoAliasing ==
    /\ \A k1 \in Stored, k2 \in Stored : k1 # k2 => container[k1] # container[k2]
    /\ \A k \in Stored : pool[container[k]] = 0
    /\ \A e \in Elems : pool[e] < 2


\* ------------------------------------------------------------------------
\* Values of different keys (SpecLeak)

\* the value that is set for key k: each key has a value of its own
ValOf(k) == k.sec + 1

\* New(0): one goroutine calls Set, always with the value of the key, and
\* Remove, while another calls GetValue; time passes, all interleaved
\* step by step.
NextLeak ==
    \/ AdvanceTime
    \/ \E k \in KeyWraps, d \in TTLs, cbs \in {<<>>, <<1>>} :
         SetCall(Mutator, k, ValOf(k), d, cbs)
    \/ SetValue(Mutator)
    \/ SetExpiresField(Mutator)
    \/ SetCbs(Mutator)
    \/ SetLock(Mutator)
    \/ SetNewExpires(Mutator)
    \/ SetInsert(Mutator)
    \/ \E k \in KeyWraps : Remove(Mutator, k)
    \/ \E k \in KeyWraps : GetCall(Observer, "GetValue", k, 0)
    \/ GetCheck(Observer)
    \/ GetLock(Observer)
    \/ GetCb(Observer)
    \/ GetValueRead(Observer)

SpecLeak == InitStopped /\ [][NextLeak]_vars

\* C33: the value that GetValue returns for a key, and the value passed to
\* a callback of an eviction of that key, is a value that was set for that
\* key (or, for GetValue, the zero value), never the value set for another
\* key.
C33_NoLeak ==
    \A t \in Callers :
      ret[t].name = "GetValue" =>
        /\ ret[t].val \in {ZeroVal, ValOf(ret[t].k)}
        /\ \A i \in 1..Len(ret[t].fired) : ret[t].fired[i][2] = ValOf(ret[t].k)


\* ------------------------------------------------------------------------
\* Refresh and SetExpires on an expired entry (SpecLazy)

Extenders == {"Refresh", "SetExpires"}

\* C34: Refresh and SetExpires called on a key whose stored entry is past
\* its deadline return ErrKeyNotFound, evict the entry, calling each of
\* its callbacks once with its value, and leave the key without entry;
\* no step of such a call writes a deadline.
C34_NoRevival ==
    /\ [](LET r == ret[Solo]
          IN  (r.name \in Extenders /\ r.pre.set /\ r.at > r.pre.deadline) =>
                /\ r.err = "ErrKeyNotFound"
                /\ r.evicted
                /\ r.fired = CallsOf(r.pre)
                /\ r.k \notin Stored
                /\ ~hist.live[r.k].set)
    /\ [][\A t \in Callers :
            (op[t].name \in Extenders /\ Acts(t) /\ op[t].pre.set
               /\ now > op[t].pre.deadline) => heap' = heap]_vars

\* a SetExpires has evicted an expired entry after its two callbacks
C34_Witness ==
    LET r == ret[Solo]
    IN  /\ r.name = "SetExpires"
        /\ r.pre.set
        /\ r.at > r.pre.deadline
        /\ r.err = "ErrKeyNotFound"
        /\ Len(r.fired) = 2
        /\ r.k \notin Stored


\* ------------------------------------------------------------------------
\* Calls on a key without entry; Size and Snapshot (SpecLazy)

\* the step is a whole call of caller t, of one of names, on a key that
\* has no entry in the container
AbsentCall(t, names) ==
    /\ pc[t] = "idle"
    /\ nOps'[t] # nOps[t]
    /\ ret'[t].name \in names
    /\ ret'[t].k \in KeyWraps
    /\ container[ret'[t].k] = NilElem

\* C35: Contains, GetValue, GetExpires, Refresh, SetExpires and Remove on
\* a key that has no entry leave the container and every element as they
\* are and call no callback; Size and Snapshot leave the container and
\* every element as they are.
C35_AbsenceChangesNothing ==
    [][\A t \in Callers :
         /\ AbsentCall(t, GetNames \cup {"Remove"}) =>
              /\ container' = container
              /\ heap' = heap
              /\ pool' = pool
              /\ pc'[t] = "idle"
              /\ ret'[t].fired = <<>>
              /\ ~ret'[t].found
         /\ (pc[t] = "idle" /\ nOps'[t] # nOps[t] /\ ret'[t].name \in {"Size", "Snapshot"}) =>
              /\ container' = container
              /\ heap' = heap
              /\ pool' = pool]_vars

\* Remove was called on a key that has no entry while the same user key
\* has an entry in the other section, which is still stored
C35_Witness ==
    LET r == ret[Solo]
    IN  /\ r.name = "Remove"
        /\ ~r.found
        /\ r.k = [sec |-> 1, key |-> 1]
        /\ [sec |-> 0, key |-> 1] \in Stored
        /\ r.k \notin Stored


\* ------------------------------------------------------------------------
\* The key of a call (SpecLazy)

\* the calls on one key of one section
PointNames == GetNames \cup {"Set", "Remove"}

\* the step is one of a call of caller t on key k, the call being a Set,
\* a Remove or a call built on get
PointStep(t, k) ==
    /\ Acts(t)
    /\ IF pc[t] # "idle"
       THEN op[t].name \in PointNames /\ op[t].k = k
       ELSE IF pc'[t] # "idle"
       THEN op'[t].name \in PointNames /\ op'[t].k = k
       ELSE ret'[t].name \in PointNames /\ ret'[t].k = k

\* C36: no step of Set, Remove, Refresh, SetExpires or a lookup on a key,
\* evicting or not, changes the entry of another key: every other key,
\* the same user key in another section too, keeps its element, and the
\* element its value, deadline and callbacks.
C36_OwnKeyOnly ==
    [][\A t \in Callers, k \in KeyWraps :
         PointStep(t, k) =>
           \A k2 \in KeyWraps \ {k} :
             /\ container'[k2] = container[k2]
             /\ k2 \in Stored => heap'[container[k2]] = heap[container[k2]]]_vars

\* a Set on the key of section 1 has returned, and the same user key has
\* another entry, with another value, in section 0
C36_Witness ==
    LET r == ret[Solo]
        k0 == [sec |-> 0, key |-> 1]
        k1 == [sec |-> 1, key |-> 1]
    IN  /\ r.name = "Set"
        /\ r.k = k1
        /\ k0 \in Stored /\ k1 \in Stored
        /\ container[k0] # container[k1]
        /\ heap[container[k0]].value # heap[container[k1]].value


\* ------------------------------------------------------------------------
\* What runs while a callback runs (SpecCb)

\* New(0, tickerChan): one goroutine calls Set and Contains, the cleanup
\* loop sweeps between its calls, and another goroutine calls Size at any
\* moment.
NextCb ==
    \/ Quiet /\ AdvanceTime
    \/ \E k \in KeyWraps, d \in TTLs, cbs \in {<<>>, <<1>>} :
         Quiet /\ SetCall(Mutator, k, 1, d, cbs)
    \/ SetValue(Mutator)
    \/ SetExpiresField(Mutator)
    \/ SetCbs(Mutator)
    \/ SetLock(Mutator)
    \/ SetNewExpires(Mutator)
    \/ SetInsert(Mutator)
    \/ \E k \in KeyWraps : Quiet /\ GetCall(Mutator, "Contains", k, 0)
    \/ GetCheck(Mutator)
    \/ GetLock(Mutator)
    \/ GetCb(Mutator)
    \/ \E sec \in Sections : Size(Observer, sec)
    \/ \E l \in Loops : LoopBegin(l)
    \/ \E l \in Loops : Quiet /\ LoopTick(l)
    \/ \E l \in Loops : PassLock(l)
    \/ \E l \in Loops : PassVisit(l)
    \/ \E l \in Loops : PassCbs(l)
    \/ \E l \in Loops : PassCb(l)
    \/ \E l \in Loops : PassUnlock(l)

SpecCb == InitExternal /\ [][NextCb]_vars

\* the threads that are calling the callbacks of an eviction
InCallback ==
    {t \in Callers : pc[t] = "get_cb"}
      \cup {LoopThread(l) : l \in {x \in Loops : lp[x].pc = "pass_cb"}}

\* C37: a thread that calls the callbacks of an eviction, of a lookup or
\* of a sweep pass, holds the write lock, and as long as it does no other
\* thread reads the container or changes the container or an element.
C37_CallbacksUnderLock ==
    /\ [](\A x \in InCallback : mtx = x)
    /\ [][\A x \in InCallback, t \in Callers :
            (t # x /\ Acts(t)) =>
              /\ ~Reads(t)
              /\ container' = container
              /\ heap' = heap]_vars

====
